---- MODULE Spec2Model ----
(***************************************************************************)
(* Model of the image-optimization pipeline:                               *)
(*   - functions/image-processing/index.js  (handler, transformImage,      *)
(*     sendError): the Resolution Orchestrator and the Precompute Driver;  *)
(*   - functions/url-rewrite/index.js (handler): the Edge Normalizer;      *)
(*   - the two S3 buckets and the Sharp codec they call, as environment.   *)
(* JavaScript strings are TLA+ strings; the string methods the code uses   *)
(* (split, join, replace, startsWith, endsWith, includes, parseInt,        *)
(* toString('base64')) are operators computed the way the runtime          *)
(* computes them.                                                          *)
(***************************************************************************)
EXTENDS Integers, Sequences, FiniteSets, TLC

(***************************************************************************)
(* JavaScript string primitives                                            *)
(***************************************************************************)

\* s.startsWith(p)
StartsWith(s, p) ==
    /\ Len(p) <= Len(s)
    /\ SubSeq(s, 1, Len(p)) = p

\* s.endsWith(p)
EndsWith(s, p) ==
    /\ Len(p) <= Len(s)
    /\ SubSeq(s, Len(s) - Len(p) + 1, Len(s)) = p

\* s.indexOf(p) + 1 : position of the first occurrence of p in s, 0 if none
IndexOf(s, p) ==
    LET Hits == { i \in 1..(Len(s) - Len(p) + 1) : SubSeq(s, i, i + Len(p) - 1) = p }
    IN  IF Hits = {} THEN 0 ELSE CHOOSE i \in Hits : \A j \in Hits : i <= j

\* s.includes(p)
Includes(s, p) == IndexOf(s, p) # 0

\* s.replace(p, r) with a string pattern: only the first occurrence
ReplaceFirst(s, p, r) ==
    LET i == IndexOf(s, p)
    IN  IF i = 0 THEN s
        ELSE SubSeq(s, 1, i - 1) \o r \o SubSeq(s, i + Len(p), Len(s))

\* s.replace(/c/g, r) for a one-character pattern c: every occurrence
RECURSIVE ReplaceAll(_, _, _)
ReplaceAll(s, c, r) ==
    IF s = "" THEN ""
    ELSE (IF SubSeq(s, 1, 1) = c THEN r ELSE SubSeq(s, 1, 1))
            \o ReplaceAll(SubSeq(s, 2, Len(s)), c, r)

\* s.split(c) for a one-character separator c: a non-empty sequence of strings
RECURSIVE Split(_, _)
Split(s, c) ==
    LET i == IndexOf(s, c)
    IN  IF i = 0 THEN << s >>
        ELSE << SubSeq(s, 1, i - 1) >> \o Split(SubSeq(s, i + 1, Len(s)), c)

\* parts.join(c)
RECURSIVE Join(_, _)
Join(parts, c) ==
    IF parts = << >> THEN ""
    ELSE IF Len(parts) = 1 THEN parts[1]
    ELSE parts[1] \o c \o Join(Tail(parts), c)

Digits == { "0", "1", "2", "3", "4", "5", "6", "7", "8", "9" }

DigitValue(c) ==
    CASE c = "0" -> 0 [] c = "1" -> 1 [] c = "2" -> 2 [] c = "3" -> 3
      [] c = "4" -> 4 [] c = "5" -> 5 [] c = "6" -> 6 [] c = "7" -> 7
      [] c = "8" -> 8 [] c = "9" -> 9

\* length of the longest prefix of s made of decimal digits
RECURSIVE DigitPrefixLen(_)
DigitPrefixLen(s) ==
    IF s = "" \/ SubSeq(s, 1, 1) \notin Digits THEN 0
    ELSE 1 + DigitPrefixLen(SubSeq(s, 2, Len(s)))

\* value of a string of decimal digits
RECURSIVE DigitsValue(_)
DigitsValue(s) ==
    IF s = "" THEN 0
    ELSE 10 * DigitsValue(SubSeq(s, 1, Len(s) - 1)) + DigitValue(SubSeq(s, Len(s), Len(s)))

\* A JavaScript value that is a string or undefined
Undefined == [def |-> FALSE, v |-> ""]
Str(s) == [def |-> TRUE, v |-> s]

\* truthiness of a string-or-undefined value
Truthy(x) == x.def /\ x.v # ""

\* A JavaScript number that may be NaN
NaN == [nan |-> TRUE, v |-> 0]
Num(n) == [nan |-> FALSE, v |-> n]

\* parseInt(x) in radix 10: optional sign, then the longest digit prefix;
\* NaN for undefined and for a string that starts with no digit
ParseInt(x) ==
    IF ~x.def THEN NaN
    ELSE LET neg  == StartsWith(x.v, "-")
             body == IF neg \/ StartsWith(x.v, "+") THEN SubSeq(x.v, 2, Len(x.v)) ELSE x.v
             n    == DigitPrefixLen(body)
         IN  IF n = 0 THEN NaN
             ELSE Num((IF neg THEN -1 ELSE 1) * DigitsValue(SubSeq(body, 1, n)))

\* a || b for a number a
OrElse(a, b) == IF a.nan \/ a.v = 0 THEN b ELSE a.v

\* Math.min
Min(a, b) == IF a <= b THEN a ELSE b

\* Object.fromEntries(s.split(',').map(operation => operation.split('='))):
\* the first part of every entry is the key, the second (undefined when the
\* entry has no '=') the value; a later entry with the same key wins
ParseOperations(s) ==
    LET entries == Split(s, ",")
        pair(i) == Split(entries[i], "=")
        keys    == { pair(i)[1] : i \in 1..Len(entries) }
        last(k) == CHOOSE i \in 1..Len(entries) :
                       /\ pair(i)[1] = k
                       /\ \A j \in 1..Len(entries) : pair(j)[1] = k => j <= i
    IN  [ k \in keys |-> IF Len(pair(last(k))) >= 2 THEN Str(pair(last(k))[2]) ELSE Undefined ]

\* obj[k]
Get(obj, k) == IF k \in DOMAIN obj THEN obj[k] ELSE Undefined

(***************************************************************************)
(* Configuration (process.env) and bounds                                  *)
(***************************************************************************)

\* number of handler invocations one behaviour goes through, for each
\* invocation the platform runs at once
MaxInvocations == 1

\* number of execution environments (one in-flight invocation each)
MaxConcurrent == 2

\* number of times the S3 trigger delivers a notification again
MaxRedeliveries == 1

Slots == 1..MaxConcurrent

SECRET_KEY == "s3cr3t"

\* parseInt(process.env.maxImageSize), in bytes
MAX_IMAGE_SIZE == 4

TRANSFORMED_IMAGE_CACHE_TTL == "max-age=31622400"

SUPPORTED_EXTENSIONS == << ".jpg", ".jpeg", ".webp", ".avif", ".png" >>

TRANSFORMED_FOLDER_PREFIX == "transformed"

\* the forEach over SUPPORTED_EXTENSIONS
isTransformSupported(path) ==
    \E i \in 1..Len(SUPPORTED_EXTENSIONS) : EndsWith(path, SUPPORTED_EXTENSIONS[i])

\* The deployments the model is checked for: the size and format lists of
\* the precompute path ('|'-separated) and the two allow-lists
Environments ==
    { [ autoTransformImageSizes    |-> "org|w=1",
        autoTransformImageFormats  |-> "org|webp",
        allowTransformImageWidths  |-> "",
        allowTransformImageHeights |-> "" ],
      [ autoTransformImageSizes    |-> "w=2",
        autoTransformImageFormats  |-> "jpeg",
        allowTransformImageWidths  |-> "1|2",
        allowTransformImageHeights |-> "1|2" ] }

(***************************************************************************)
(* The stores and the codec (environment of the handler)                   *)
(***************************************************************************)

\* The bytes of an image: a name for the content, its byte length and what
\* decoding it yields
Bytes(name, len, corrupt, width, height, orientation) ==
    [ name |-> name, len |-> len, corrupt |-> corrupt,
      width |-> width, height |-> height, orientation |-> orientation ]

\* Content of the original-image bucket: key -> object
OriginalObjects ==
    [ k \in { "a.jpg", "b.png", "c.jpg", "sample/1.jpg", "site/static-assets/a.jpg" } |->
        CASE k = "a.jpg" -> [ Body        |-> Bytes("A", MAX_IMAGE_SIZE, FALSE, 4, 2, 0),
                              ContentType |-> "image/jpeg" ]
          [] k = "b.png" -> [ Body        |-> Bytes("B", MAX_IMAGE_SIZE + 1, FALSE, 5, 5, 6),
                              ContentType |-> "image/png" ]
          [] k = "c.jpg" -> [ Body        |-> Bytes("C", 2, TRUE, 0, 0, 0),
                              ContentType |-> "image/jpeg" ]
          [] k = "sample/1.jpg" ->
                 [ Body        |-> Bytes("S", 3, FALSE, 800, 600, 0),
                   ContentType |-> "image/jpeg" ]
          [] k = "site/static-assets/a.jpg" ->
                 [ Body        |-> Bytes("T", 2, FALSE, 4, 2, 0),
                   ContentType |-> "image/jpeg" ] ]

\* an optional number (a property of an options object that may be unset)
Unset == [set |-> FALSE, v |-> 0]
SetTo(n) == [set |-> TRUE, v |-> n]

\* output formats sharp's toFormat accepts; any other string throws
SharpFormats == { "jpeg", "jpg", "png", "webp", "avif", "gif", "tiff", "heif" }

\* sharp(...).resize(options) throws on a width or height that is not a
\* positive integer
ResizeThrows(options) ==
    \/ options.width.set  /\ options.width.v  <= 0
    \/ options.height.set /\ options.height.v <= 0

\* sharp(...).toFormat(format) throws on an unknown format
ToFormatThrows(format) == format \notin SharpFormats

\* Byte length of the buffer the codec produces for a pipeline: the input's
\* length scaled by the resize target (the codec is deterministic)
EncodedLength(pipeline) ==
    LET in == pipeline.input
        w  == IF pipeline.resize.width.set  THEN pipeline.resize.width.v  ELSE in.width
        h  == IF pipeline.resize.height.set THEN pipeline.resize.height.v ELSE in.height
        n  == (in.len * w * h) \div (in.width * in.height)
    IN  IF n < 1 THEN 1 ELSE n

\* The buffer toBuffer() resolves to
Encode(pipeline) == [ of |-> pipeline, len |-> EncodedLength(pipeline) ]

\* Buffer.byteLength(buffer)
ByteLength(buffer) == buffer.len

\* buffer.toString('base64'): four characters for every three bytes, padded
Base64(buffer) == [ base64 |-> buffer, length |-> 4 * ((buffer.len + 2) \div 3) ]

\* a string body
Text(s) == [ text |-> s ]

(***************************************************************************)
(* sendError and the values a handler invocation ends with                 *)
(***************************************************************************)

\* return value of sendError(statusCode, body, error)
sendError(statusCode, body) == [ statusCode |-> statusCode, body |-> Text(body) ]

\* what sendError writes to the log
LogEntry(body) == [ op |-> "log", arg |-> body ]

\* a call to a collaborator, recorded when it is made
Call(op, arg) == [ op |-> op, arg |-> arg ]

\* the promise of a call settles: resolved (ok) or rejected
Settled(op, ok) == [ op |-> "settled", arg |-> op, ok |-> ok ]

\* transformImage(path, operations) returns value
ReturnEntry(operations, value) == [ op |-> "return", arg |-> operations, value |-> value ]

\* the 500 response of a failed transform
TransformError == sendError(500, "error transforming image")

\* the download failure answered with the message of the transform failure
DownloadErrorAsTransformError == sendError(500, "error transforming image")

\* the 500 response of a failed download
DownloadError == sendError(500, "Error downloading original image")

Pending == [ kind |-> "pending" ]
Returned(value) == [ kind |-> "returned", value |-> value ]
Threw(error) == [ kind |-> "threw", error |-> error ]
UndefinedValue == [ undefined |-> TRUE ]
Null == [ null |-> TRUE ]

(***************************************************************************)
(* The Edge Normalizer: functions/url-rewrite/index.js                     *)
(***************************************************************************)

UpperCaseLetters == "ABCDEFGHIJKLMNOPQRSTUVWXYZ"
LowerCaseLetters == "abcdefghijklmnopqrstuvwxyz"

\* s.toLowerCase()
RECURSIVE ToLowerCase(_)
ToLowerCase(s) ==
    IF s = "" THEN ""
    ELSE LET c == SubSeq(s, 1, 1)
             i == IndexOf(UpperCaseLetters, c)
         IN  (IF i = 0 THEN c ELSE SubSeq(LowerCaseLetters, i, i))
                \o ToLowerCase(SubSeq(s, 2, Len(s)))

SUPPORTED_FORMATS == { "auto", "jpg", "jpeg", "webp", "avif", "png" }

\* A viewer request as the edge function gets it: querystring is the object
\* of the event as the sequence of its entries in key order, each
\* [key, value] with value '' for a parameter without one; headers.accept
\* and cookies.crafterSite are a string or undefined
ViewerRequest(uri, querystring, accept, crafterSite) ==
    [ uri |-> uri, querystring |-> querystring,
      headers |-> [ accept |-> accept ], cookies |-> [ crafterSite |-> crafterSite ] ]

\* case 'f' with webp looked for before avif
NormalizedFormatWebpFirst(value, accept) ==
    IF value # "" /\ ToLowerCase(value) \in SUPPORTED_FORMATS
    THEN IF ToLowerCase(value) = "auto"
         THEN IF accept.def /\ Includes(accept.v, "webp") THEN Str("webp")
              ELSE IF accept.def /\ Includes(accept.v, "avif") THEN Str("avif")
              ELSE Str("jpeg")
         ELSE Str(ToLowerCase(value))
    ELSE Undefined

\* case 'f': the format the entry normalizes to, undefined when the value is
\* empty or not a supported format; 'auto' is resolved from the Accept header
NormalizedFormat(value, accept) ==
    IF value # "" /\ ToLowerCase(value) \in SUPPORTED_FORMATS
    THEN IF ToLowerCase(value) = "auto"
         THEN IF accept.def /\ Includes(accept.v, "avif") THEN Str("avif")
              ELSE IF accept.def /\ Includes(accept.v, "webp") THEN Str("webp")
              ELSE Str("jpeg")
         ELSE Str(ToLowerCase(value))
    ELSE Undefined

\* case 'w', 'h', 'mw', 'mh': parseInt(value).toString() for a positive
\* integer, undefined otherwise
NormalizedDimension(value) ==
    IF value # "" /\ ~ParseInt(Str(value)).nan /\ ParseInt(Str(value)).v > 0
    THEN Str(ToString(ParseInt(Str(value)).v))
    ELSE Undefined

\* case 'q' without the clamp to 100
NormalizedQualityUnclamped(value) ==
    IF value # "" /\ ~ParseInt(Str(value)).nan /\ ParseInt(Str(value)).v > 0
    THEN Str(ToString(ParseInt(Str(value)).v))
    ELSE Undefined

\* case 'q': as a dimension, and a value above 100 becomes 100
NormalizedQuality(value) ==
    IF value # "" /\ ~ParseInt(Str(value)).nan /\ ParseInt(Str(value)).v > 0
    THEN Str(ToString(Min(ParseInt(Str(value)).v, 100)))
    ELSE Undefined

\* what one iteration of the forEach assigns: the property of
\* normalizedOperations it sets and the value, undefined when it sets none
NormalizedEntry(entry, accept) ==
    LET operation == ToLowerCase(entry.key)
    IN  CASE operation = "f" -> [ name |-> "f", value |-> NormalizedFormat(entry.value, accept) ]
          [] operation \in { "w", "h", "mw", "mh" } ->
                 [ name |-> operation, value |-> NormalizedDimension(entry.value) ]
          [] operation = "q" -> [ name |-> "q", value |-> NormalizedQuality(entry.value) ]
          [] OTHER -> [ name |-> operation, value |-> Undefined ]

\* normalizedOperations after the forEach over Object.keys(request.querystring):
\* for every property the value of the last entry that assigned it
NormalizedOperations(querystring, accept) ==
    LET assigns(i, name) == /\ NormalizedEntry(querystring[i], accept).name = name
                            /\ NormalizedEntry(querystring[i], accept).value.def
        last(name) == CHOOSE i \in DOMAIN querystring :
                          /\ assigns(i, name)
                          /\ \A j \in DOMAIN querystring : assigns(j, name) => j <= i
    IN  [ name \in { n \in { "f", "q", "w", "h", "mw", "mh" } :
                       \E i \in DOMAIN querystring : assigns(i, n) } |->
            NormalizedEntry(querystring[last(name)], accept).value.v ]

\* the properties in the order the switch lists its cases
OperationsOrderOfCases == << "f", "w", "h", "mw", "mh", "q" >>

\* the properties in the order normalizedOperationsArray is filled
OperationsOrder == << "f", "q", "w", "h", "mw", "mh" >>

\* the pushed string with the long name of the property ('format=webp')
OperationTextLongName(name, value) ==
    (CASE name = "f" -> "format" [] name = "q" -> "quality" [] name = "w" -> "width"
       [] name = "h" -> "height" [] OTHER -> name) \o "=" \o value

\* the string pushed for a property: 'f=' + normalizedOperations.f
OperationText(name, value) == name \o "=" \o value

\* normalizedOperationsArray: 'name=value' for every property that is set
RECURSIVE NormalizedOperationsArray(_, _)
NormalizedOperationsArray(normalizedOperations, names) ==
    IF names = << >> THEN << >>
    ELSE (IF Head(names) \in DOMAIN normalizedOperations
          THEN << OperationText(Head(names), normalizedOperations[Head(names)]) >> ELSE << >>)
            \o NormalizedOperationsArray(normalizedOperations, Tail(names))

\* the last path segment without the 'original' of the else branches
OperationsSegmentNoOriginal(querystring, accept) ==
    Join(NormalizedOperationsArray(NormalizedOperations(querystring, accept), OperationsOrder), ",")

\* the last path segment the edge function appends
OperationsSegment(querystring, accept) ==
    LET normalizedOperations == NormalizedOperations(querystring, accept)
    IN  IF DOMAIN normalizedOperations # {}
        THEN Join(NormalizedOperationsArray(normalizedOperations, OperationsOrder), ",")
        ELSE "original"

\* request.uri and request.querystring when the if (isTransformSupported)
\* statement is over
Rewritten(request) ==
    IF isTransformSupported(request.uri)
    THEN [ request EXCEPT
             !.uri = "/" \o TRANSFORMED_FOLDER_PREFIX \o request.uri \o "/"
                         \o OperationsSegment(request.querystring, request.headers.accept),
             !.querystring = << >> ]
    ELSE request

\* handler(event): request.cookies.crafterSite.value throws a TypeError when
\* the request has no crafterSite cookie; a non-empty site is put in front
\* of the uri
urlRewrite(request) ==
    IF ~request.cookies.crafterSite.def THEN Threw("TypeError")
    ELSE IF request.cookies.crafterSite.v # ""
    THEN Returned([ Rewritten(request) EXCEPT
                      !.uri = "/" \o request.cookies.crafterSite.v \o Rewritten(request).uri ])
    ELSE Returned(Rewritten(request))

(***************************************************************************)
(* State                                                                   *)
(***************************************************************************)

VARIABLES
    env,                \* process.env of the deployment
    concurrency,        \* how many invocations the platform runs at once
    invocations,        \* number of events delivered so far
    delivered,          \* the last S3 notification delivered (the trigger may deliver it again)
    originalBucket,     \* S3_ORIGINAL_IMAGE_BUCKET: key -> object
    transformedBucket,  \* S3_TRANSFORMED_IMAGE_BUCKET: key -> object
    pc,                 \* per slot: the await the invocation is suspended at
    event,              \* per slot: the event being handled
    originalImagePath,  \* per slot: handler's originalImagePath
    operationsPrefix,   \* per slot: operationsPrefix of the running transformImage
    loop,               \* per slot: <<size index, format index>> of the precompute loops
    originalImage,      \* per slot: transformImage's originalImage
    contentType,        \* per slot: transformImage's contentType
    imageMetadata,      \* per slot: transformImage's imageMetadata
    transformedImage,   \* per slot: transformImage's transformedImage
    imageTooBig,        \* per slot: transformImage's imageTooBig
    result,             \* per slot: how the handler's promise settled
    trace,              \* per slot: calls made and log lines written, in order
    viewerRequest,      \* the request the edge function is invoked with
    edgeResult          \* how the edge function ended: the request it returns

envVars   == << env, concurrency >>
storeVars == << originalBucket, transformedBucket >>
localVars == << originalImage, contentType, imageMetadata, transformedImage, imageTooBig >>
edgeVars  == << viewerRequest, edgeResult >>
lambdaVars == << invocations, delivered, storeVars, pc, event, originalImagePath, operationsPrefix, loop,
                localVars, result, trace >>
vars == << env, concurrency, invocations, delivered, originalBucket, transformedBucket, pc, event,
           originalImagePath, operationsPrefix, loop, originalImage, contentType,
           imageMetadata, transformedImage, imageTooBig, result, trace,
           viewerRequest, edgeResult >>

AUTO_TRANSFORM_IMAGE_SIZES == env.autoTransformImageSizes
AUTO_TRANSFORM_IMAGE_FORMATS == env.autoTransformImageFormats
ALLOW_TRANSFORM_IMAGE_WIDTHS == env.allowTransformImageWidths
ALLOW_TRANSFORM_IMAGE_HEIGHTS == env.allowTransformImageHeights

(***************************************************************************)
(* Events                                                                  *)
(***************************************************************************)

\* an S3 notification: it has Records and no headers
S3Event(eventName, key) ==
    [ Records |-> << [ eventName |-> eventName, s3 |-> [ object |-> [ key |-> key ] ] ] >> ]

\* a function-URL request
HttpEvent(headers, method, path) ==
    [ headers |-> headers,
      requestContext |-> [ http |-> [ method |-> method, path |-> path ] ] ]

NoHeaders == [ h \in {} |-> "" ]
SecretHeader(value) == [ h \in { "x-origin-secret-header" } |-> value ]

IngestionEvents ==
    { S3Event(n, k) : n \in { "ObjectCreated:Put", "ObjectRemoved:Delete" },
                      k \in { "a.jpg", "b.png", "c.jpg", "gone.jpg", "sandbox/a.jpg", "a.txt" } }

DirectPaths ==
    { "/a.jpg/original", "/a.jpg/w=1", "/a.jpg/f=webp,w=9", "/a.jpg/f=xyz", "/a.jpg/w=-1",
      "/b.png/original", "/b.png/f=webp,w=9,h=9", "/b.png/h=1", "/transformed/b.png/w=5,h=4",
      "/c.jpg/w=1", "/gone.jpg/w=1",
      "/sample/1.jpg/f=webp,w=400", "/sample/1.jpg/w=9999", "/sample/1.jpg/mw=9999,mh=300",
      "/site/transformed/static-assets/a.jpg/w=1", "/a.jpg/w=1,f=org",
      "/a.jpg/f=webp,q=50", "/a.jpg/f=png,q=50", "/b.png/org=1", "/b.png/org,f=org",
      "/site/static-assets/a.jpg/original", "/a.jpg/f=gif", "/a.jpg/f=avif", "/a.jpg/f=jpeg",
      "/a.jpg/w=2,h=1" }

DirectEvents ==
    { HttpEvent(h, m, p) :
        h \in { NoHeaders, SecretHeader(""), SecretHeader("guess"), SecretHeader(SECRET_KEY) },
        m \in { "GET", "POST" },
        p \in DirectPaths }
    \cup
    { [ headers |-> h ] : h \in { NoHeaders, SecretHeader(SECRET_KEY) } }
    \cup
    { [ headers |-> h, requestContext |-> [ accountId |-> "anonymous" ] ] :
        h \in { SecretHeader("guess"), SecretHeader(SECRET_KEY) } }

Events == IngestionEvents \cup DirectEvents

\* one entry of the querystring object of a viewer request
QueryEntry(key, value) == [ key |-> key, value |-> value ]

QueryStrings ==
    { << >>,
      << QueryEntry("w", "400") >>,
      << QueryEntry("W", "400") >>,
      << QueryEntry("w", "400"), QueryEntry("h", "300") >>,
      << QueryEntry("H", "300"), QueryEntry("w", "400") >>,
      << QueryEntry("f", "webp"), QueryEntry("w", "400") >>,
      << QueryEntry("w", "400"), QueryEntry("F", "WebP") >>,
      << QueryEntry("f", "auto") >>,
      << QueryEntry("f", "AUTO"), QueryEntry("q", "150") >>,
      << QueryEntry("Q", "150"), QueryEntry("f", "auto") >>,
      << QueryEntry("f", "png") >>,
      << QueryEntry("f", "png"), QueryEntry("q", "50") >>,
      << QueryEntry("f", "png"), QueryEntry("q", "80") >>,
      << QueryEntry("f", "jpeg"), QueryEntry("q", "50") >>,
      << QueryEntry("f", "jpg") >>,
      << QueryEntry("f", "gif"), QueryEntry("q", "50") >>,
      << QueryEntry("f", "svg") >>,
      << QueryEntry("f", "") >>,
      << QueryEntry("w", "100"), QueryEntry("W", "200") >>,
      << QueryEntry("W", "200"), QueryEntry("w", "100") >>,
      << QueryEntry("w", "100"), QueryEntry("W", "abc") >>,
      << QueryEntry("W", "abc"), QueryEntry("w", "100") >>,
      << QueryEntry("w", "abc") >>,
      << QueryEntry("w", "0") >>,
      << QueryEntry("w", "-5"), QueryEntry("q", "0") >>,
      << QueryEntry("w", "12px"), QueryEntry("h", "007") >>,
      << QueryEntry("w", "") >>,
      << QueryEntry("mw", "10"), QueryEntry("mh", "20") >>,
      << QueryEntry("mh", "20"), QueryEntry("w", "400"), QueryEntry("mw", "10") >>,
      << QueryEntry("original", "") >>,
      << QueryEntry("x", "1"), QueryEntry("width", "400") >>,
      << QueryEntry("mh", "20"), QueryEntry("mw", "10"), QueryEntry("h", "300"),
         QueryEntry("w", "400"), QueryEntry("q", "50"), QueryEntry("f", "avif") >> }

\* values of the Accept header, undefined when the request has none
AcceptHeaders ==
    { Undefined, Str("image/avif,image/webp,*/*"), Str("image/webp,*/*"), Str("*/*") }

ViewerRequests ==
    { ViewerRequest(uri, querystring, accept, crafterSite) :
        uri \in { "/sample/1.jpg", "/static-assets/b.PNG", "/static-assets/b.png", "/doc.txt",
                  "/transformed/pic.jpg" },
        querystring \in QueryStrings,
        accept \in AcceptHeaders,
        crafterSite \in { Undefined, Str(""), Str("site"), Str("transformed/a") } }

(***************************************************************************)
(* handler: the synchronous code up to the first await                     *)
(***************************************************************************)

\* event.Records != null && event.Records[0].eventName.includes('ObjectCreated')
IsObjectCreated(e) ==
    /\ "Records" \in DOMAIN e
    /\ Includes(e.Records[1].eventName, "ObjectCreated")

\* the precompute branch runs its loops
IsPrecompute(e) ==
    /\ IsObjectCreated(e)
    /\ ~StartsWith(e.Records[1].s3.object.key, "sandbox/")
    /\ isTransformSupported(e.Records[1].s3.object.key)

autoTransformImageSizes == Split(AUTO_TRANSFORM_IMAGE_SIZES, "|")
autoTransformImageFormats == Split(AUTO_TRANSFORM_IMAGE_FORMATS, "|")

\* operationsPrefix of the loop iteration <<i, j>>: `${size},f=${format}`
LoopOperations(ij) ==
    autoTransformImageSizes[ij[1]] \o ",f=" \o autoTransformImageFormats[ij[2]]

\* event.headers['x-origin-secret-header']
SecretOf(e) ==
    IF "x-origin-secret-header" \in DOMAIN e.headers
    THEN Str(e.headers["x-origin-secret-header"]) ELSE Undefined

\* the 403 branch testing only that the header is present
UnauthorizedPresenceOnly(e) == ~Truthy(SecretOf(e))

\* the test of the 403 branch
Unauthorized(e) == ~Truthy(SecretOf(e)) \/ ~(SecretOf(e) = Str(SECRET_KEY))

\* the 400 branch testing only that the request context is there
NotGetAnyMethod(e) ==
    \/ "requestContext" \notin DOMAIN e
    \/ "http" \notin DOMAIN e.requestContext

\* the test of the 400 branch
NotGet(e) ==
    \/ "requestContext" \notin DOMAIN e
    \/ "http" \notin DOMAIN e.requestContext
    \/ ~(e.requestContext.http.method = "GET")

\* imagePathArray.pop()
PathOperations(path) ==
    LET imagePathArray == Split(path, "/")
    IN  imagePathArray[Len(imagePathArray)]

\* pop(), shift() and join('/'): the path between the first '/' and the
\* last segment, as it is
PathOriginalAsIs(path) ==
    LET imagePathArray == Split(path, "/")
        popped  == SubSeq(imagePathArray, 1, Len(imagePathArray) - 1)
        shifted == SubSeq(popped, 2, Len(popped))
    IN  Join(shifted, "/")

\* pop(), shift(), join('/') and the removal of the first 'transformed/'
PathOriginal(path) ==
    LET imagePathArray == Split(path, "/")
        popped  == SubSeq(imagePathArray, 1, Len(imagePathArray) - 1)
        shifted == SubSeq(popped, 2, Len(popped))
    IN  ReplaceFirst(Join(shifted, "/"), TRANSFORMED_FOLDER_PREFIX \o "/", "")

(***************************************************************************)
(* transformImage: the synchronous code between its awaits                 *)
(***************************************************************************)

\* what transformedImage.metadata() resolves to
Metadata(body) ==
    [ width |-> body.width, height |-> body.height, orientation |-> body.orientation ]

\* !operationsJSON['org']
NotOrg(operationsJSON) == ~Truthy(Get(operationsJSON, "org"))

\* the allow-list test is entered; allowTransformImageWidths.allowTransformImageWidths
\* is undefined, so calling indexOf on it throws a TypeError
AllowListThrows == ALLOW_TRANSFORM_IMAGE_WIDTHS # "" /\ ALLOW_TRANSFORM_IMAGE_HEIGHTS # ""

\* resizingOptions with the requested dimensions taken as they are
ResizingOptionsUnclamped(operationsJSON, meta) ==
    LET imageTransformWidth     == ParseInt(Get(operationsJSON, "w"))
        imageTransformHeight    == ParseInt(Get(operationsJSON, "h"))
        imageTransformMaxWidth  == ParseInt(Get(operationsJSON, "mw"))
        imageTransformMaxHeight == ParseInt(Get(operationsJSON, "mh"))
        w  == IF Truthy(Get(operationsJSON, "w"))
              THEN SetTo(OrElse(imageTransformWidth, meta.width)) ELSE Unset
        h  == IF Truthy(Get(operationsJSON, "h"))
              THEN SetTo(OrElse(imageTransformHeight, meta.height)) ELSE Unset
        mw == Truthy(Get(operationsJSON, "mw"))
        mh == Truthy(Get(operationsJSON, "mh"))
    IN  [ width  |-> IF mw THEN SetTo(OrElse(imageTransformMaxWidth, meta.width)) ELSE w,
          height |-> IF mh THEN SetTo(OrElse(imageTransformMaxHeight, meta.height)) ELSE h,
          fit    |-> IF mw \/ mh THEN Str("inside") ELSE Undefined ]

\* resizingOptions after the w, h, mw and mh statements
ResizingOptions(operationsJSON, meta) ==
    LET imageTransformWidth     == ParseInt(Get(operationsJSON, "w"))
        imageTransformHeight    == ParseInt(Get(operationsJSON, "h"))
        imageTransformMaxWidth  == ParseInt(Get(operationsJSON, "mw"))
        imageTransformMaxHeight == ParseInt(Get(operationsJSON, "mh"))
        w  == IF Truthy(Get(operationsJSON, "w"))
              THEN SetTo(Min(OrElse(imageTransformWidth, meta.width), meta.width)) ELSE Unset
        h  == IF Truthy(Get(operationsJSON, "h"))
              THEN SetTo(Min(OrElse(imageTransformHeight, meta.height), meta.height)) ELSE Unset
        mw == Truthy(Get(operationsJSON, "mw"))
        mh == Truthy(Get(operationsJSON, "mh"))
    IN  [ width  |-> IF mw THEN SetTo(Min(OrElse(imageTransformMaxWidth, meta.width), meta.width)) ELSE w,
          height |-> IF mh THEN SetTo(Min(OrElse(imageTransformMaxHeight, meta.height), meta.height)) ELSE h,
          fit    |-> IF mw \/ mh THEN Str("inside") ELSE Undefined ]

NoResize == [ width |-> Unset, height |-> Unset, fit |-> Undefined ]

\* operationsJSON['f'] && operationsJSON['f'] != 'org'
FormatRequested(operationsJSON) ==
    Truthy(Get(operationsJSON, "f")) /\ Get(operationsJSON, "f").v # "org"

\* contentType after the switch on operationsJSON['f']
FormatContentType(f) ==
    CASE f = "jpeg" -> "image/jpeg"
      [] f = "gif"  -> "image/gif"
      [] f = "webp" -> "image/webp"
      [] f = "png"  -> "image/png"
      [] f = "avif" -> "image/avif"
      [] OTHER      -> "image/jpeg"

\* isLossy after the switch
IsLossy(f) == f \notin { "gif", "png" }

\* the quality handed to toFormat: only operationsJSON['quality'] is read
FormatQuality(operationsJSON) ==
    IF Truthy(Get(operationsJSON, "quality")) /\ IsLossy(Get(operationsJSON, "f").v)
    THEN ParseInt(Get(operationsJSON, "quality")) ELSE NaN

\* the sharp pipeline built inside the try block, before toBuffer()
Pipeline(body, meta, operations) ==
    LET operationsJSON == ParseOperations(operations)
    IN  [ input   |-> body,
          resized |-> NotOrg(operationsJSON),
          resize  |-> IF NotOrg(operationsJSON) THEN ResizingOptions(operationsJSON, meta) ELSE NoResize,
          rotate  |-> NotOrg(operationsJSON) /\ meta.orientation # 0,
          format  |-> IF FormatRequested(operationsJSON) THEN Get(operationsJSON, "f") ELSE Undefined,
          quality |-> IF FormatRequested(operationsJSON) THEN FormatQuality(operationsJSON) ELSE NaN ]

\* a statement of the try block throws before toBuffer() is reached
PipelineThrows(meta, operations) ==
    LET operationsJSON == ParseOperations(operations)
    IN  \/ NotOrg(operationsJSON) /\ AllowListThrows
        \/ NotOrg(operationsJSON) /\ ResizeThrows(ResizingOptions(operationsJSON, meta))
        \/ FormatRequested(operationsJSON) /\ ToFormatThrows(Get(operationsJSON, "f").v)

\* contentType when it starts as 'image/jpeg' and not as the type of the original
ResolvedContentTypeDefaultJpeg(original, operations) ==
    LET operationsJSON == ParseOperations(operations)
    IN  IF FormatRequested(operationsJSON)
        THEN FormatContentType(Get(operationsJSON, "f").v) ELSE "image/jpeg"

\* contentType after the try block
ResolvedContentType(original, operations) ==
    LET operationsJSON == ParseOperations(operations)
    IN  IF FormatRequested(operationsJSON)
        THEN FormatContentType(Get(operationsJSON, "f").v) ELSE original

\* shortenOperationsPrefix
ShortenOperationsPrefix(operations) ==
    LET shortened == ReplaceFirst(ReplaceFirst(ReplaceFirst(operations,
                         "org,f=org", ""), "org,", ""), ",f=org", "")
    IN  IF shortened = "" THEN "original" ELSE shortened

\* the key made of the path and the first operation only
TransformedKeyFirstOperation(path, operations) ==
    ReplaceFirst(path, "/static-assets/", "/" \o TRANSFORMED_FOLDER_PREFIX \o "/static-assets/")
        \o "/" \o Split(ShortenOperationsPrefix(operations), ",")[1]

\* Key of the putObject request
TransformedKey(path, operations) ==
    ReplaceFirst(path, "/static-assets/", "/" \o TRANSFORMED_FOLDER_PREFIX \o "/static-assets/")
        \o "/" \o ShortenOperationsPrefix(operations)

\* the putObject request stamped with the number of the delivery
PutRequestPerDelivery(path, operations, buffer, type) ==
    [ Key         |-> TransformedKey(path, operations),
      Body        |-> buffer,
      ContentType |-> type,
      Metadata    |-> [ cacheControl |-> TRANSFORMED_IMAGE_CACHE_TTL \o ", delivery=" \o ToString(invocations) ] ]

\* the putObject request carrying a version read from the store: the
\* number of objects it holds when the request is made
PutRequestVersioned(path, operations, buffer, type) ==
    [ Key         |-> TransformedKey(path, operations),
      Body        |-> buffer,
      ContentType |-> type,
      Metadata    |-> [ cacheControl |-> TRANSFORMED_IMAGE_CACHE_TTL,
                        version      |-> Cardinality(DOMAIN transformedBucket) ] ]

\* the putObject request
PutRequest(path, operations, buffer, type) ==
    [ Key         |-> TransformedKey(path, operations),
      Body        |-> buffer,
      ContentType |-> type,
      Metadata    |-> [ cacheControl |-> TRANSFORMED_IMAGE_CACHE_TTL ] ]

\* the 302 response with replace(',', '&'), which replaces the first comma only
RedirectFirstComma(path, operations) ==
    [ statusCode |-> 302,
      headers    |-> [ Location     |-> "/" \o path \o "?" \o ReplaceFirst(operations, ",", "&"),
                       CacheControl |-> "private,no-store" ] ]

\* the 302 response
Redirect(path, operations) ==
    [ statusCode |-> 302,
      headers    |-> [ Location     |-> "/" \o path \o "?" \o ReplaceAll(operations, ",", "&"),
                       CacheControl |-> "private,no-store" ] ]

\* imageTooBig with the ceiling off by one byte
TooBigOffByOne(buffer) == ByteLength(buffer) > MAX_IMAGE_SIZE + 1

\* imageTooBig
TooBig(buffer) == ByteLength(buffer) > MAX_IMAGE_SIZE

\* the 200 response with the Cache-Control of the redirect
OkNoStore(buffer, type) ==
    [ statusCode      |-> 200,
      body            |-> Base64(buffer),
      isBase64Encoded |-> TRUE,
      headers         |-> [ ContentType  |-> type,
                            CacheControl |-> "private,no-store" ] ]

\* the 200 response
Ok(buffer, type) ==
    [ statusCode      |-> 200,
      body            |-> Base64(buffer),
      isBase64Encoded |-> TRUE,
      headers         |-> [ ContentType  |-> type,
                            CacheControl |-> TRANSFORMED_IMAGE_CACHE_TTL ] ]

\* the statement after the upload returning the image whatever its size
FallbackInline(tooBig, buffer, type) == Ok(buffer, type)

\* the statement after the upload: the 403 for an oversize image, else the 200
Fallback(tooBig, buffer, type) ==
    IF tooBig THEN sendError(403, "Requested transformed image is too big")
    ELSE Ok(buffer, type)

\* the catch block of the upload returning its sendError
UploadCatchReturns(next) == sendError(500, "Could not upload transformed image to S3")

\* the catch block of the upload only logs: transformImage goes on to the
\* statement after the upload, whose value is next
UploadCatch(next) == next

\* what transformImage returns once putObject has settled
AfterUpload(stored, tooBig, path, operations, buffer, type) ==
    IF stored
    THEN IF tooBig THEN Redirect(path, operations) ELSE Fallback(tooBig, buffer, type)
    ELSE UploadCatch(Fallback(tooBig, buffer, type))

\* log lines sendError writes for a returned value
ErrorLog(value) ==
    IF value.statusCode \in { 200, 302 } THEN << >> ELSE << LogEntry(value.body.text) >>

(***************************************************************************)
(* Actions                                                                 *)
(***************************************************************************)

\* The state after deployment, the platform running up to `reserved`
\* invocations at once
Deployed(reserved) ==
    /\ env \in Environments
    /\ concurrency = reserved
    /\ invocations = 0
    /\ delivered = Null
    /\ originalBucket = OriginalObjects
    /\ transformedBucket = [ k \in {} |-> Null ]
    /\ pc = [ s \in Slots |-> "idle" ]
    /\ event = [ s \in Slots |-> Null ]
    /\ originalImagePath = [ s \in Slots |-> "" ]
    /\ operationsPrefix = [ s \in Slots |-> "" ]
    /\ loop = [ s \in Slots |-> << 0, 0 >> ]
    /\ originalImage = [ s \in Slots |-> Null ]
    /\ contentType = [ s \in Slots |-> "" ]
    /\ imageMetadata = [ s \in Slots |-> Null ]
    /\ transformedImage = [ s \in Slots |-> Null ]
    /\ imageTooBig = [ s \in Slots |-> FALSE ]
    /\ result = [ s \in Slots |-> Pending ]
    /\ trace = [ s \in Slots |-> << >> ]
    /\ viewerRequest = Null
    /\ edgeResult = Pending

Init == Deployed(1)

\* the loop indices after iteration ij, << 0, 0 >> when both loops are over
NextLoop(ij) ==
    IF ij[2] < Len(autoTransformImageFormats) THEN << ij[1], ij[2] + 1 >>
    ELSE IF ij[1] < Len(autoTransformImageSizes) THEN << ij[1] + 1, 1 >>
    ELSE << 0, 0 >>

\* the first statements of transformImage(path, operations): S3.getObject is called
EnterTransformImage(path, operations) ==
    << Call("transformImage", operations), Call("getObject", path) >>

\* transformImage returns `value` to the handler, the trace being tr: a direct
\* request returns it; the precompute loops drop it and go on with the next
\* iteration, or end the handler with undefined
Settle(s, value, tr) ==
    LET returned == tr \o ErrorLog(value) \o << ReturnEntry(operationsPrefix[s], value) >>
    IN  IF ~IsPrecompute(event[s])
        THEN /\ pc' = [ pc EXCEPT ![s] = "done" ]
             /\ result' = [ result EXCEPT ![s] = Returned(value) ]
             /\ trace' = [ trace EXCEPT ![s] = returned ]
             /\ UNCHANGED << loop, operationsPrefix >>
        ELSE IF NextLoop(loop[s]) = << 0, 0 >>
        THEN /\ pc' = [ pc EXCEPT ![s] = "done" ]
             /\ result' = [ result EXCEPT ![s] = Returned(UndefinedValue) ]
             /\ trace' = [ trace EXCEPT ![s] = returned ]
             /\ UNCHANGED << loop, operationsPrefix >>
        ELSE /\ pc' = [ pc EXCEPT ![s] = "getObject" ]
             /\ loop' = [ loop EXCEPT ![s] = NextLoop(loop[s]) ]
             /\ operationsPrefix' = [ operationsPrefix EXCEPT ![s] = LoopOperations(NextLoop(loop[s])) ]
             /\ trace' = [ trace EXCEPT ![s] =
                    returned \o EnterTransformImage(originalImagePath[s], LoopOperations(NextLoop(loop[s]))) ]
             /\ UNCHANGED result

\* handler(event) is invoked with e in an idle execution environment and
\* runs up to its first await or to its return
Invoke(s, e) ==
    /\ pc[s] = "idle"
    /\ Cardinality({ t \in Slots : pc[t] # "idle" }) < concurrency
    /\ \A t \in Slots : t < s => pc[t] # "idle"
    /\ invocations' = invocations + 1
    /\ delivered' = IF "Records" \in DOMAIN e THEN e ELSE delivered
    /\ event' = [ event EXCEPT ![s] = e ]
    /\ IF IsPrecompute(e)
       THEN /\ pc' = [ pc EXCEPT ![s] = "getObject" ]
            /\ originalImagePath' = [ originalImagePath EXCEPT ![s] = e.Records[1].s3.object.key ]
            /\ loop' = [ loop EXCEPT ![s] = << 1, 1 >> ]
            /\ operationsPrefix' = [ operationsPrefix EXCEPT ![s] = LoopOperations(<< 1, 1 >>) ]
            /\ trace' = [ trace EXCEPT ![s] =
                   EnterTransformImage(e.Records[1].s3.object.key, LoopOperations(<< 1, 1 >>)) ]
            /\ result' = [ result EXCEPT ![s] = Pending ]
       ELSE IF IsObjectCreated(e)
       THEN /\ pc' = [ pc EXCEPT ![s] = "done" ]
            /\ originalImagePath' = [ originalImagePath EXCEPT ![s] = e.Records[1].s3.object.key ]
            /\ result' = [ result EXCEPT ![s] = Returned(UndefinedValue) ]
            /\ trace' = [ trace EXCEPT ![s] = << >> ]
            /\ UNCHANGED << loop, operationsPrefix >>
       ELSE IF "headers" \notin DOMAIN e
       THEN \* event.headers is undefined: reading a property of it throws
            /\ pc' = [ pc EXCEPT ![s] = "done" ]
            /\ result' = [ result EXCEPT ![s] = Threw("TypeError") ]
            /\ trace' = [ trace EXCEPT ![s] = << >> ]
            /\ UNCHANGED << originalImagePath, loop, operationsPrefix >>
       ELSE IF Unauthorized(e)
       THEN /\ pc' = [ pc EXCEPT ![s] = "done" ]
            /\ result' = [ result EXCEPT ![s] = Returned(sendError(403, "Request unauthorized")) ]
            /\ trace' = [ trace EXCEPT ![s] = ErrorLog(sendError(403, "Request unauthorized")) ]
            /\ UNCHANGED << originalImagePath, loop, operationsPrefix >>
       ELSE IF NotGet(e)
       THEN /\ pc' = [ pc EXCEPT ![s] = "done" ]
            /\ result' = [ result EXCEPT ![s] = Returned(sendError(400, "Only GET method is supported")) ]
            /\ trace' = [ trace EXCEPT ![s] = ErrorLog(sendError(400, "Only GET method is supported")) ]
            /\ UNCHANGED << originalImagePath, loop, operationsPrefix >>
       ELSE /\ pc' = [ pc EXCEPT ![s] = "getObject" ]
            /\ originalImagePath' = [ originalImagePath EXCEPT ![s] = PathOriginal(e.requestContext.http.path) ]
            /\ operationsPrefix' = [ operationsPrefix EXCEPT ![s] = PathOperations(e.requestContext.http.path) ]
            /\ loop' = [ loop EXCEPT ![s] = << 0, 0 >> ]
            /\ trace' = [ trace EXCEPT ![s] =
                   EnterTransformImage(PathOriginal(e.requestContext.http.path),
                                       PathOperations(e.requestContext.http.path)) ]
            /\ result' = [ result EXCEPT ![s] = Pending ]
    /\ UNCHANGED << envVars, edgeVars, storeVars, localVars >>

\* The platform delivers event e
Receive(s, e) ==
    /\ invocations < MaxInvocations * concurrency
    /\ Invoke(s, e)

\* The S3 trigger delivers its last notification once more (at-least-once
\* delivery)
Redeliver(s) ==
    /\ delivered # Null
    /\ invocations < MaxInvocations * concurrency + MaxRedeliveries
    /\ Invoke(s, delivered)

\* S3.getObject settles: it resolves with the object when the key exists and
\* the store answers, and rejects otherwise; on success Sharp(...) is built
\* and metadata() is called
GetObject(s, storeAnswers) ==
    /\ pc[s] = "getObject"
    /\ IF storeAnswers /\ originalImagePath[s] \in DOMAIN originalBucket
       THEN /\ originalImage' = [ originalImage EXCEPT ![s] = originalBucket[originalImagePath[s]] ]
            /\ contentType' = [ contentType EXCEPT ![s] = originalBucket[originalImagePath[s]].ContentType ]
            /\ pc' = [ pc EXCEPT ![s] = "metadata" ]
            /\ trace' = [ trace EXCEPT ![s] =
                   @ \o << Settled("getObject", TRUE), Call("metadata", originalImagePath[s]) >> ]
            /\ UNCHANGED << loop, operationsPrefix, result >>
       ELSE /\ Settle(s, DownloadError, trace[s] \o << Settled("getObject", FALSE) >>)
            /\ UNCHANGED << originalImage, contentType >>
    /\ UNCHANGED << envVars, edgeVars, invocations, delivered, storeVars, event, originalImagePath,
                    imageMetadata, transformedImage, imageTooBig >>

\* transformedImage.metadata() settles, outside any try block: a rejection
\* leaves transformImage and the handler as an exception; otherwise the try
\* block runs up to toBuffer(), and a throw inside it is caught
GetMetadata(s) ==
    /\ pc[s] = "metadata"
    /\ IF originalImage[s].Body.corrupt
       THEN /\ pc' = [ pc EXCEPT ![s] = "done" ]
            /\ result' = [ result EXCEPT ![s] = Threw("Input buffer contains unsupported image format") ]
            /\ trace' = [ trace EXCEPT ![s] = @ \o << Settled("metadata", FALSE) >> ]
            /\ UNCHANGED << imageMetadata, loop, operationsPrefix >>
       ELSE /\ imageMetadata' = [ imageMetadata EXCEPT ![s] = Metadata(originalImage[s].Body) ]
            /\ IF PipelineThrows(Metadata(originalImage[s].Body), operationsPrefix[s])
               THEN Settle(s, TransformError,
                           trace[s] \o << Settled("metadata", TRUE), Call("pipeline", "throws") >>)
               ELSE /\ pc' = [ pc EXCEPT ![s] = "toBuffer" ]
                    /\ trace' = [ trace EXCEPT ![s] =
                           @ \o << Settled("metadata", TRUE), Call("toBuffer", operationsPrefix[s]) >> ]
                    /\ UNCHANGED << loop, operationsPrefix, result >>
    /\ UNCHANGED << envVars, edgeVars, invocations, delivered, storeVars, event, originalImagePath,
                    originalImage, contentType, transformedImage, imageTooBig >>

\* toBuffer() settles and an oversize image is answered with the 403 at
\* once, without the upload
ToBufferSkipsOversizeUpload(s, codecSucceeds) ==
    /\ pc[s] = "toBuffer"
    /\ LET buffer == Encode(Pipeline(originalImage[s].Body, imageMetadata[s], operationsPrefix[s]))
       IN  IF codecSucceeds /\ ~TooBig(buffer)
           THEN /\ transformedImage' = [ transformedImage EXCEPT ![s] = buffer ]
                /\ contentType' = [ contentType EXCEPT ![s] =
                       ResolvedContentType(contentType[s], operationsPrefix[s]) ]
                /\ imageTooBig' = [ imageTooBig EXCEPT ![s] = FALSE ]
                /\ pc' = [ pc EXCEPT ![s] = "putObject" ]
                /\ trace' = [ trace EXCEPT ![s] =
                       @ \o << Settled("toBuffer", TRUE),
                               Call("putObject", TransformedKey(originalImagePath[s], operationsPrefix[s])) >> ]
                /\ UNCHANGED << loop, operationsPrefix, result >>
           ELSE IF codecSucceeds
           THEN /\ transformedImage' = [ transformedImage EXCEPT ![s] = buffer ]
                /\ contentType' = [ contentType EXCEPT ![s] =
                       ResolvedContentType(contentType[s], operationsPrefix[s]) ]
                /\ imageTooBig' = [ imageTooBig EXCEPT ![s] = TRUE ]
                /\ Settle(s, sendError(403, "Requested transformed image is too big"),
                          trace[s] \o << Settled("toBuffer", TRUE) >>)
           ELSE /\ Settle(s, TransformError, trace[s] \o << Settled("toBuffer", FALSE) >>)
                /\ UNCHANGED << transformedImage, contentType, imageTooBig >>
    /\ UNCHANGED << envVars, edgeVars, invocations, delivered, storeVars, event, originalImagePath,
                    originalImage, imageMetadata >>

\* toBuffer() settles: a rejection is caught; on success the size test is
\* made and S3.putObject is called
ToBuffer(s, codecSucceeds) ==
    /\ pc[s] = "toBuffer"
    /\ IF codecSucceeds
       THEN LET buffer == Encode(Pipeline(originalImage[s].Body, imageMetadata[s], operationsPrefix[s]))
            IN  /\ transformedImage' = [ transformedImage EXCEPT ![s] = buffer ]
                /\ contentType' = [ contentType EXCEPT ![s] =
                       ResolvedContentType(contentType[s], operationsPrefix[s]) ]
                /\ imageTooBig' = [ imageTooBig EXCEPT ![s] = TooBig(buffer) ]
                /\ pc' = [ pc EXCEPT ![s] = "putObject" ]
                /\ trace' = [ trace EXCEPT ![s] =
                       @ \o << Settled("toBuffer", TRUE),
                               Call("putObject", TransformedKey(originalImagePath[s], operationsPrefix[s])) >> ]
                /\ UNCHANGED << loop, operationsPrefix, result >>
       ELSE /\ Settle(s, TransformError, trace[s] \o << Settled("toBuffer", FALSE) >>)
            /\ UNCHANGED << transformedImage, contentType, imageTooBig >>
    /\ UNCHANGED << envVars, edgeVars, invocations, delivered, storeVars, event, originalImagePath,
                    originalImage, imageMetadata >>

\* S3.putObject settles, and a rejected write is made once more before the
\* catch block gives up
PutObjectRetriesOnce(s, storeAnswers) ==
    /\ pc[s] = "putObject"
    /\ IF storeAnswers
       THEN LET request == PutRequest(originalImagePath[s], operationsPrefix[s],
                                      transformedImage[s], contentType[s])
            IN  transformedBucket' =
                    [ k \in DOMAIN transformedBucket \cup { request.Key } |->
                        IF k = request.Key
                        THEN [ Body |-> request.Body, ContentType |-> request.ContentType,
                               Metadata |-> request.Metadata ]
                        ELSE transformedBucket[k] ]
       ELSE UNCHANGED transformedBucket
    /\ IF ~storeAnswers /\ trace[s][Len(trace[s]) - 1] # Settled("putObject", FALSE)
       THEN /\ trace' = [ trace EXCEPT ![s] =
                   @ \o << Settled("putObject", FALSE),
                           Call("putObject", TransformedKey(originalImagePath[s], operationsPrefix[s])) >> ]
            /\ UNCHANGED << pc, result, loop, operationsPrefix >>
       ELSE Settle(s, AfterUpload(storeAnswers, imageTooBig[s], originalImagePath[s], operationsPrefix[s],
                                  transformedImage[s], contentType[s]),
                   trace[s] \o << Settled("putObject", storeAnswers) >>
                           \o (IF storeAnswers THEN << >>
                               ELSE << LogEntry("Could not upload transformed image to S3") >>))
    /\ UNCHANGED << envVars, edgeVars, invocations, delivered, originalBucket, event, originalImagePath, localVars >>

\* S3.putObject settles, the request naming S3_ORIGINAL_IMAGE_BUCKET as its
\* Bucket
PutObjectIntoOriginalBucket(s, storeAnswers) ==
    /\ pc[s] = "putObject"
    /\ IF storeAnswers
       THEN LET request == PutRequest(originalImagePath[s], operationsPrefix[s],
                                      transformedImage[s], contentType[s])
            IN  originalBucket' =
                    [ k \in DOMAIN originalBucket \cup { request.Key } |->
                        IF k = request.Key
                        THEN [ Body |-> request.Body, ContentType |-> request.ContentType,
                               Metadata |-> request.Metadata ]
                        ELSE originalBucket[k] ]
       ELSE UNCHANGED originalBucket
    /\ Settle(s, AfterUpload(storeAnswers, imageTooBig[s], originalImagePath[s], operationsPrefix[s],
                             transformedImage[s], contentType[s]),
              trace[s] \o << Settled("putObject", storeAnswers) >>
                      \o (IF storeAnswers THEN << >>
                          ELSE << LogEntry("Could not upload transformed image to S3") >>))
    /\ UNCHANGED << envVars, edgeVars, invocations, delivered, transformedBucket, event, originalImagePath, localVars >>

\* S3.putObject settles: on success the object is in the transformed bucket
\* and an oversize image is answered with the redirect; a rejection is caught
\* and logged; then the 403 or the 200 is returned
PutObject(s, storeAnswers) ==
    /\ pc[s] = "putObject"
    /\ IF storeAnswers
       THEN LET request == PutRequest(originalImagePath[s], operationsPrefix[s],
                                      transformedImage[s], contentType[s])
            IN  transformedBucket' =
                    [ k \in DOMAIN transformedBucket \cup { request.Key } |->
                        IF k = request.Key
                        THEN [ Body |-> request.Body, ContentType |-> request.ContentType,
                               Metadata |-> request.Metadata ]
                        ELSE transformedBucket[k] ]
       ELSE UNCHANGED transformedBucket
    /\ Settle(s, AfterUpload(storeAnswers, imageTooBig[s], originalImagePath[s], operationsPrefix[s],
                             transformedImage[s], contentType[s]),
              trace[s] \o << Settled("putObject", storeAnswers) >>
                      \o (IF storeAnswers THEN << >>
                          ELSE << LogEntry("Could not upload transformed image to S3") >>))
    /\ UNCHANGED << envVars, edgeVars, invocations, delivered, originalBucket, event, originalImagePath, localVars >>

\* The platform takes the settled result; the execution environment is free
\* and the frame of the invocation is gone
Deliver(s) ==
    /\ pc[s] = "done"
    /\ pc' = [ pc EXCEPT ![s] = "idle" ]
    /\ event' = [ event EXCEPT ![s] = Null ]
    /\ originalImagePath' = [ originalImagePath EXCEPT ![s] = "" ]
    /\ operationsPrefix' = [ operationsPrefix EXCEPT ![s] = "" ]
    /\ loop' = [ loop EXCEPT ![s] = << 0, 0 >> ]
    /\ originalImage' = [ originalImage EXCEPT ![s] = Null ]
    /\ contentType' = [ contentType EXCEPT ![s] = "" ]
    /\ imageMetadata' = [ imageMetadata EXCEPT ![s] = Null ]
    /\ transformedImage' = [ transformedImage EXCEPT ![s] = Null ]
    /\ imageTooBig' = [ imageTooBig EXCEPT ![s] = FALSE ]
    /\ result' = [ result EXCEPT ![s] = Pending ]
    /\ trace' = [ trace EXCEPT ![s] = << >> ]
    /\ UNCHANGED << envVars, edgeVars, invocations, delivered, storeVars >>

\* A viewer request reaches the distribution
EdgeReceive(request) ==
    /\ viewerRequest = Null
    /\ viewerRequest' = request
    /\ edgeResult' = Pending
    /\ UNCHANGED << envVars, lambdaVars >>

\* The edge function runs on it (it is synchronous: one step)
EdgeHandler ==
    /\ viewerRequest # Null
    /\ edgeResult = Pending
    /\ edgeResult' = urlRewrite(viewerRequest)
    /\ UNCHANGED << envVars, lambdaVars, viewerRequest >>

Next ==
    \/ \E s \in Slots, e \in Events : Receive(s, e)
    \/ \E s \in Slots, storeAnswers \in BOOLEAN : GetObject(s, storeAnswers)
    \/ \E s \in Slots : GetMetadata(s)
    \/ \E s \in Slots, codecSucceeds \in BOOLEAN : ToBuffer(s, codecSucceeds)
    \/ \E s \in Slots, storeAnswers \in BOOLEAN : PutObject(s, storeAnswers)
    \/ \E s \in Slots : Deliver(s)

Spec == Init /\ [][Next]_vars

\* The edge function alone, over the viewer requests
NextEdge ==
    \/ \E request \in ViewerRequests : EdgeReceive(request)
    \/ EdgeHandler

SpecEdge == Init /\ [][NextEdge]_vars

\* The Precompute Driver under redelivery: one S3 notification, delivered
\* and then possibly delivered again
NextRedelivery ==
    \/ \E s \in Slots, e \in IngestionEvents : delivered = Null /\ Receive(s, e)
    \/ \E s \in Slots : Redeliver(s)
    \/ \E s \in Slots, storeAnswers \in BOOLEAN : GetObject(s, storeAnswers)
    \/ \E s \in Slots : GetMetadata(s)
    \/ \E s \in Slots, codecSucceeds \in BOOLEAN : ToBuffer(s, codecSucceeds)
    \/ \E s \in Slots, storeAnswers \in BOOLEAN : PutObject(s, storeAnswers)
    \/ \E s \in Slots : Deliver(s)

SpecRedelivery == Init /\ [][NextRedelivery]_vars

\* authorized GET requests that may arrive at the same time
ConcurrentEvents ==
    { HttpEvent(SecretHeader(SECRET_KEY), "GET", p) :
        p \in { "/a.jpg/original", "/a.jpg/w=1", "/b.png/original",
                "/sample/1.jpg/f=webp,w=400", "/gone.jpg/w=1" } }

\* Two invocations at once, over the authorized GET requests
InitConcurrent == Deployed(2)

NextConcurrent ==
    \/ \E s \in Slots, e \in ConcurrentEvents : Receive(s, e)
    \/ \E s \in Slots, storeAnswers \in BOOLEAN : GetObject(s, storeAnswers)
    \/ \E s \in Slots : GetMetadata(s)
    \/ \E s \in Slots, codecSucceeds \in BOOLEAN : ToBuffer(s, codecSucceeds)
    \/ \E s \in Slots, storeAnswers \in BOOLEAN : PutObject(s, storeAnswers)
    \/ \E s \in Slots : Deliver(s)

SpecConcurrent == InitConcurrent /\ [][NextConcurrent]_vars

TypeOK ==
    /\ env \in Environments
    /\ pc \in [ Slots -> { "idle", "getObject", "metadata", "toBuffer", "putObject", "done" } ]
    /\ loop \in [ Slots -> (0..2) \X (0..2) ]
    /\ imageTooBig \in [ Slots -> BOOLEAN ]

(***************************************************************************)
(* Properties                                                              *)
(***************************************************************************)

\* the event of slot s is a function-URL request (not an S3 notification)
DirectRequest(s) == "headers" \in DOMAIN event[s] /\ "Records" \notin DOMAIN event[s]

\* the request of slot s carries the provisioned secret
CarriesSecret(s) ==
    /\ "x-origin-secret-header" \in DOMAIN event[s].headers
    /\ event[s].headers["x-origin-secret-header"] = SECRET_KEY

\* the request of slot s is a GET with a request context
IsGet(s) ==
    /\ "requestContext" \in DOMAIN event[s]
    /\ "http" \in DOMAIN event[s].requestContext
    /\ event[s].requestContext.http.method = "GET"

\* the trace of slot s has the entry
InTrace(s, entry) == \E i \in DOMAIN trace[s] : trace[s][i] = entry

\* the invocation of slot s made a call to one of ops
Called(s, ops) == \E i \in DOMAIN trace[s] : trace[s][i].op \in ops

\* no fetch of an original, no codec call, no store write
NoSideEffect(s) ==
    ~Called(s, { "transformImage", "getObject", "metadata", "pipeline", "toBuffer", "putObject" })

\* the handler of slot s returned a response with this status
Responded(s, statusCode) ==
    /\ result[s].kind = "returned"
    /\ "statusCode" \in DOMAIN result[s].value
    /\ result[s].value.statusCode = statusCode

\* an authorized GET whose fetch and transform succeeded has ended
TransformedDirect(s) ==
    /\ pc[s] = "done"
    /\ DirectRequest(s) /\ CarriesSecret(s) /\ IsGet(s)
    /\ InTrace(s, Settled("getObject", TRUE))
    /\ InTrace(s, Settled("toBuffer", TRUE))

\* C1: a direct request whose secret header is absent or differs from the
\* configured secret is answered 403, and no original is fetched, nothing is
\* transformed and nothing is written, whatever its method and path
C1_UnauthorizedRejected ==
    \A s \in Slots :
        (pc[s] = "done" /\ DirectRequest(s) /\ ~CarriesSecret(s))
            => (Responded(s, 403) /\ NoSideEffect(s))

C1_Witness ==
    \E s \in Slots :
        /\ pc[s] = "done" /\ DirectRequest(s) /\ IsGet(s)
        /\ event[s].headers = SecretHeader("guess")
        /\ event[s].requestContext.http.path = "/a.jpg/w=1"
        /\ Responded(s, 403)

\* C2: an authorized direct request that is not a GET, or has no request
\* context, is answered 400, and no original is fetched, nothing is
\* transformed and nothing is written
C2_NonGetRejected ==
    \A s \in Slots :
        (pc[s] = "done" /\ DirectRequest(s) /\ CarriesSecret(s) /\ ~IsGet(s))
            => (Responded(s, 400) /\ NoSideEffect(s))

C2_Witness ==
    \E s \in Slots :
        /\ pc[s] = "done" /\ DirectRequest(s) /\ CarriesSecret(s)
        /\ "requestContext" \in DOMAIN event[s]
        /\ "http" \in DOMAIN event[s].requestContext
        /\ event[s].requestContext.http.method = "POST"
        /\ Responded(s, 400)

\* C3: when fetch and transform of an authorized GET succeed and the output
\* is at most MAX_IMAGE_SIZE bytes long, the response is the 200 carrying the
\* bytes just transformed from the fetched original, whether the store write
\* succeeded or failed
C3_StoreFailureKeepsResponse ==
    \A s \in Slots :
        (TransformedDirect(s) /\ ByteLength(transformedImage[s]) <= MAX_IMAGE_SIZE)
            => /\ Responded(s, 200)
               /\ result[s].value.isBase64Encoded
               /\ result[s].value.body.base64 = transformedImage[s]
               /\ transformedImage[s].of.input = originalBucket[originalImagePath[s]].Body

C3_Witness ==
    \E s \in Slots :
        /\ TransformedDirect(s)
        /\ ByteLength(transformedImage[s]) = MAX_IMAGE_SIZE
        /\ InTrace(s, Settled("putObject", FALSE))
        /\ InTrace(s, LogEntry("Could not upload transformed image to S3"))
        /\ Responded(s, 200)

\* C4: when the output is longer than MAX_IMAGE_SIZE and the store write
\* succeeds, the response is a 302 whose Location is '/' + the original path
\* + '?' + the operations joined with '&' instead of ',', without a body
C4_OversizeRedirect ==
    \A s \in Slots :
        (/\ TransformedDirect(s)
         /\ ByteLength(transformedImage[s]) > MAX_IMAGE_SIZE
         /\ InTrace(s, Settled("putObject", TRUE)))
            => /\ Responded(s, 302)
               /\ result[s].value.headers.Location =
                      "/" \o originalImagePath[s] \o "?" \o Join(Split(operationsPrefix[s], ","), "&")
               /\ "body" \notin DOMAIN result[s].value

C4_Witness ==
    \E s \in Slots :
        /\ TransformedDirect(s)
        /\ event[s].requestContext.http.path = "/b.png/f=webp,w=9,h=9"
        /\ ByteLength(transformedImage[s]) = MAX_IMAGE_SIZE + 1
        /\ InTrace(s, Settled("putObject", TRUE))
        /\ Responded(s, 302)
        /\ result[s].value.headers.Location = "/b.png?f=webp&w=9&h=9"

\* C5: when the output is longer than MAX_IMAGE_SIZE and the store write
\* fails, the response is the 403, never a 302 and never a 200
C5_OversizeFailure ==
    \A s \in Slots :
        (/\ TransformedDirect(s)
         /\ ByteLength(transformedImage[s]) > MAX_IMAGE_SIZE
         /\ InTrace(s, Settled("putObject", FALSE)))
            => Responded(s, 403)

C5_Witness ==
    \E s \in Slots :
        /\ TransformedDirect(s)
        /\ ByteLength(transformedImage[s]) = MAX_IMAGE_SIZE + 1
        /\ InTrace(s, Settled("putObject", FALSE))
        /\ Responded(s, 403)
        /\ result[s].value.body = Text("Requested transformed image is too big")

C7_FetchFailure ==
    \A s \in Slots :
        (/\ pc[s] = "done"
         /\ DirectRequest(s)
         /\ InTrace(s, Settled("getObject", FALSE)))
            => /\ Responded(s, 500)
               /\ result[s].value.body # Text("error transforming image")
               /\ ~Called(s, { "metadata", "pipeline", "toBuffer", "putObject" })

C7_Witness ==
    \E s \in Slots :
        /\ pc[s] = "done" /\ DirectRequest(s)
        /\ originalImagePath[s] \notin DOMAIN originalBucket
        /\ InTrace(s, Settled("getObject", FALSE))
        /\ Responded(s, 500)

\* the transform stage of slot s failed: reading the metadata, building the
\* pipeline (resize, format) or encoding
TransformFailed(s) ==
    \/ InTrace(s, Settled("metadata", FALSE))
    \/ InTrace(s, Call("pipeline", "throws"))
    \/ InTrace(s, Settled("toBuffer", FALSE))

\* C8: every failure of the transform stage (decoding the original or reading
\* its metadata, resizing, encoding) ends the request with the 500 of a failed
\* transform, never with an exception, and nothing is persisted
C8_TransformFailureIs500 ==
    \A s \in Slots :
        (pc[s] = "done" /\ DirectRequest(s) /\ TransformFailed(s))
            => /\ Responded(s, 500)
               /\ result[s].value.body = Text("error transforming image")
               /\ ~Called(s, { "putObject" })

\* C9: in the precompute path every combination of the configured sizes and
\* formats is attempted, whichever step of another combination failed
C9_EveryCombinationAttempted ==
    \A s \in Slots :
        (pc[s] = "done" /\ "Records" \in DOMAIN event[s] /\ Called(s, { "transformImage" }))
            => \A i \in 1..Len(autoTransformImageSizes), j \in 1..Len(autoTransformImageFormats) :
                   InTrace(s, Call("transformImage",
                       autoTransformImageSizes[i] \o ",f=" \o autoTransformImageFormats[j]))

\* the S3 notification of slot s is one the precompute path is meant for
DrivesPrecompute(s) ==
    LET record == event[s].Records[1]
        key    == record.s3.object.key
    IN  /\ Includes(record.eventName, "ObjectCreated")
        /\ \E ext \in { ".jpg", ".jpeg", ".webp", ".avif", ".png" } : EndsWith(key, ext)
        /\ ~StartsWith(key, "sandbox/")

\* C10: transformImage runs only for 'object created' notifications whose key
\* has a supported extension and is outside sandbox/; for every other
\* notification nothing is fetched, transformed or written and the handler
\* ends without an error
C10_OtherNotificationsIgnored ==
    \A s \in Slots :
        (pc[s] = "done" /\ "Records" \in DOMAIN event[s] /\ ~DrivesPrecompute(s))
            => (NoSideEffect(s) /\ result[s].kind = "returned")

\* the edge function returned the rewritten request of an image path
EdgeRewrote ==
    /\ viewerRequest # Null
    /\ edgeResult.kind = "returned"
    /\ isTransformSupported(viewerRequest.uri)

\* a parameter up to the letter case of its name and, for f, of its value
CaseFolded(entry) ==
    [ key   |-> ToLowerCase(entry.key),
      value |-> IF ToLowerCase(entry.key) = "f" THEN ToLowerCase(entry.value) ELSE entry.value ]

\* two query strings have the same parameters, up to their order and to
\* the letter case of names and format values
SameParameters(q1, q2) ==
    /\ Len(q1) = Len(q2)
    /\ \A i \in DOMAIN q1 :
          Cardinality({ j \in DOMAIN q1 : CaseFolded(q1[j]) = CaseFolded(q1[i]) })
            = Cardinality({ j \in DOMAIN q2 : CaseFolded(q2[j]) = CaseFolded(q1[i]) })

\* the request differs from the one the edge function ran on only in the
\* order and letter case of its parameters
SameUpToOrderAndCase(r) ==
    /\ r.uri = viewerRequest.uri
    /\ r.headers = viewerRequest.headers
    /\ r.cookies = viewerRequest.cookies
    /\ SameParameters(r.querystring, viewerRequest.querystring)

\* C11: two requests for the same image URI and Accept header whose query
\* strings differ only in the order of the parameters or in the letter case
\* of parameter names and format values are rewritten to the same uri, and
\* both leave with an empty query string
C11_OrderAndCaseInsensitive ==
    EdgeRewrote =>
        /\ edgeResult.value.querystring = << >>
        /\ \A r \in ViewerRequests :
              SameUpToOrderAndCase(r) => urlRewrite(r) = edgeResult

\* no entry of the query string passes the validation of its case
NoValidOperation(request) ==
    \A i \in DOMAIN request.querystring :
        ~NormalizedEntry(request.querystring[i], request.headers.accept).value.def

\* the last '/'-separated segment of a path
LastSegment(path) == Split(path, "/")[Len(Split(path, "/"))]

\* C12: when the request of an image path has no query string, or none of
\* its parameters is a valid operation, the rewritten path ends with the
\* segment 'original'; the last segment of a rewritten path is never empty
C12_OriginalWhenNoOperation ==
    EdgeRewrote =>
        /\ LastSegment(edgeResult.value.uri) # ""
        /\ NoValidOperation(viewerRequest) => LastSegment(edgeResult.value.uri) = "original"

C12_Witness ==
    /\ EdgeRewrote
    /\ viewerRequest.querystring # << >>
    /\ NoValidOperation(viewerRequest)
    /\ edgeResult.value.uri = "/site/transformed/sample/1.jpg/original"

\* an operation segment re-expressed as a query string: one parameter for
\* every ','-separated part, its name before the '=' and its value after
AsQueryString(segment) ==
    LET parts == Split(segment, ",")
    IN  [ i \in 1..Len(parts) |->
            QueryEntry(Split(parts[i], "=")[1],
                       IF Len(Split(parts[i], "=")) >= 2 THEN Split(parts[i], "=")[2] ELSE "") ]

\* the request sent again with the operation segment as its query string
Renormalized(request, segment) ==
    urlRewrite([ request EXCEPT !.querystring = AsQueryString(segment) ])

\* C13: canonicalization is idempotent: the operation segment the edge
\* function emitted, sent again as a query string with the same Accept
\* header, is rewritten to exactly the same segment
C13_CanonicalizationIdempotent ==
    EdgeRewrote =>
        LastSegment(Renormalized(viewerRequest, LastSegment(edgeResult.value.uri)).value.uri)
            = LastSegment(edgeResult.value.uri)

C13_Witness ==
    /\ EdgeRewrote
    /\ viewerRequest.querystring = << QueryEntry("w", "12px"), QueryEntry("h", "007") >>
    /\ LastSegment(edgeResult.value.uri) = "w=12,h=7"
    /\ AsQueryString("w=12,h=7") = << QueryEntry("w", "12"), QueryEntry("h", "7") >>
    /\ LastSegment(Renormalized(viewerRequest, "w=12,h=7").value.uri) = "w=12,h=7"

\* the query string without its q parameters, whatever their letter case
WithoutQuality(querystring) ==
    SelectSeq(querystring, LAMBDA entry : ToLowerCase(entry.key) # "q")

\* the request asks for a lossless format
TargetsLossless(request) ==
    /\ "f" \in DOMAIN NormalizedOperations(request.querystring, request.headers.accept)
    /\ NormalizedOperations(request.querystring, request.headers.accept)["f"] \in { "png", "gif" }

\* the request is the one the edge function ran on but for the value or
\* the presence of q
SameButQuality(r) ==
    /\ r.uri = viewerRequest.uri
    /\ r.headers = viewerRequest.headers
    /\ r.cookies = viewerRequest.cookies
    /\ WithoutQuality(r.querystring) = WithoutQuality(viewerRequest.querystring)

\* the key the backend stores the artifact of a rewritten path under
DerivedKeyOf(path) == TransformedKey(PathOriginal(path), PathOperations(path))

\* C14: two requests that are identical except for the value or presence of
\* q and that target a lossless format (png, gif) are rewritten to the same
\* operation string and so to the same derived key
C14_QualityIrrelevantForLossless ==
    EdgeRewrote /\ TargetsLossless(viewerRequest) =>
        \A r \in ViewerRequests :
            SameButQuality(r) =>
                /\ LastSegment(urlRewrite(r).value.uri) = LastSegment(edgeResult.value.uri)
                /\ DerivedKeyOf(urlRewrite(r).value.uri) = DerivedKeyOf(edgeResult.value.uri)

\* C15: no upscaling: every resize target dimension transformImage hands to
\* the codec is at most the intrinsic dimension of the original; w=9999 on
\* an 800x600 original gives the target width 800 and no target height
C15_NoUpscaling ==
    \A s \in Slots :
        transformedImage[s] # Null =>
            LET resize == transformedImage[s].of.resize
                input  == transformedImage[s].of.input
            IN  /\ resize.width.set  => resize.width.v  <= input.width
                /\ resize.height.set => resize.height.v <= input.height
                /\ operationsPrefix[s] = "w=9999" /\ input.width = 800 /\ input.height = 600
                       => resize.width = SetTo(800) /\ resize.height = Unset

C15_Witness ==
    \E s \in Slots :
        /\ transformedImage[s] # Null
        /\ originalImagePath[s] = "sample/1.jpg"
        /\ operationsPrefix[s] = "w=9999"
        /\ imageMetadata[s].width = 800 /\ imageMetadata[s].height = 600
        /\ transformedImage[s].of.resize.width = SetTo(800)
        /\ transformedImage[s].of.resize.height = Unset

\* the operation strings the edge function emits for the viewer requests
CanonicalOperations ==
    { OperationsSegment(querystring, accept) : querystring \in QueryStrings, accept \in AcceptHeaders }

\* the Key of the putObject call transformImage made in slot s, if any
PutKeys(s) ==
    { trace[s][i].arg : i \in { j \in DOMAIN trace[s] : trace[s][j].op = "putObject" } }

\* C16: the derived key is a function of the original path and the
\* operation string, and it is injective per original: among the canonical
\* operation strings, the one of the request is the only one whose key for
\* this original is the key transformImage writes to
C16_DerivedKeyInjective ==
    \A s \in Slots :
        operationsPrefix[s] \in CanonicalOperations =>
            \A k \in PutKeys(s), o \in CanonicalOperations :
                (TransformedKey(originalImagePath[s], o) = k) <=> (o = operationsPrefix[s])

C16_Witness ==
    \E s \in Slots :
        /\ originalImagePath[s] = "sample/1.jpg"
        /\ operationsPrefix[s] = "f=webp,w=400"
        /\ { "f=webp", "f=webp,w=400", "w=400", "original" } \subseteq CanonicalOperations
        /\ PutKeys(s) = { "sample/1.jpg/f=webp,w=400" }

\* the path of the direct request of slot s
RequestPath(s) == event[s].requestContext.http.path

\* '<original-key>' of a path '/<original-key>/<operation-string>'
PathKey(path) == Join(SubSeq(Split(path, "/"), 2, Len(Split(path, "/")) - 1), "/")

\* a direct request got as far as fetching its original
FetchedDirect(s) ==
    /\ event[s] # Null
    /\ DirectRequest(s)
    /\ Called(s, { "getObject" })

\* the keys of the getObject calls made in slot s
GetKeys(s) ==
    { trace[s][i].arg : i \in { j \in DOMAIN trace[s] : trace[s][j].op = "getObject" } }

\* C17 as stated: for a direct request with path
\* '/<original-key>/<operation-string>' the original is fetched under
\* <original-key> and the artifact is written under
\* '<original-key>/<operation-string>'
C17_PathIsKey ==
    \A s \in Slots :
        FetchedDirect(s) =>
            /\ GetKeys(s) = { PathKey(RequestPath(s)) }
            /\ PutKeys(s) \subseteq { PathKey(RequestPath(s)) \o "/" \o LastSegment(RequestPath(s)) }

\* the example of C17: '/sample/1.jpg/f=webp,w=400' is resized to width 400
\* with the height unset, and answered 200 with content type image/webp
C17_Example(s) ==
    RequestPath(s) = "/sample/1.jpg/f=webp,w=400" =>
        /\ GetKeys(s) = { "sample/1.jpg" }
        /\ PutKeys(s) \subseteq { "sample/1.jpg/f=webp,w=400" }
        /\ transformedImage[s] # Null =>
              /\ transformedImage[s].of.resize.width = SetTo(400)
              /\ transformedImage[s].of.resize.height = Unset
        /\ pc[s] = "done" /\ InTrace(s, Settled("toBuffer", TRUE)) =>
              /\ Responded(s, 200)
              /\ result[s].value.headers.ContentType = "image/webp"
        /\ pc[s] = "done" /\ InTrace(s, Settled("putObject", TRUE)) =>
              /\ "sample/1.jpg/f=webp,w=400" \in DOMAIN transformedBucket
              /\ transformedBucket["sample/1.jpg/f=webp,w=400"].Body = transformedImage[s]

\* C17, amended: the original is fetched under <original-key> without its
\* first 'transformed/', and the artifact is written under that key, its
\* first '/static-assets/' replaced by '/transformed/static-assets/',
\* followed by '/' and the operation string without the tokens 'org,' and
\* ',f=org' ('original' when nothing is left)
C17_DirectPathKeys ==
    \A s \in Slots :
        FetchedDirect(s) =>
            LET fetched == ReplaceFirst(PathKey(RequestPath(s)), "transformed/", "")
            IN  /\ GetKeys(s) = { fetched }
                /\ PutKeys(s) \subseteq
                       { ReplaceFirst(fetched, "/static-assets/", "/transformed/static-assets/")
                           \o "/" \o ShortenOperationsPrefix(LastSegment(RequestPath(s))) }
                /\ C17_Example(s)

C17_Witness ==
    \E s \in Slots :
        /\ FetchedDirect(s)
        /\ RequestPath(s) = "/site/transformed/static-assets/a.jpg/w=1"
        /\ GetKeys(s) = { "site/static-assets/a.jpg" }
        /\ PutKeys(s) = { "site/transformed/static-assets/a.jpg/w=1" }
        /\ pc[s] = "done"
        /\ "site/transformed/static-assets/a.jpg/w=1" \in DOMAIN transformedBucket

\* a notification is being handled again: the running invocation is not
\* the first one of the behaviour and handles the delivered notification
Redelivering(s) ==
    /\ invocations > 1
    /\ pc[s] # "idle"
    /\ event[s] = delivered

\* the keys one complete run of the precompute loops writes for its original
PrecomputeKeys(s) ==
    { originalImagePath[s] \o "/" \o ShortenOperationsPrefix(size \o ",f=" \o format) :
        size \in { autoTransformImageSizes[i] : i \in DOMAIN autoTransformImageSizes },
        format \in { autoTransformImageFormats[j] : j \in DOMAIN autoTransformImageFormats } }

\* C18: redelivery of an ingestion notification is idempotent: while the
\* Precompute Driver runs again for the same original, no entry of the
\* derived store changes (key, bytes, content type and metadata), and when
\* the store already holds the keys of a complete run it does not change
\* at all
C18_RedeliveryIdempotent ==
    [][ \A s \in Slots :
          Redelivering(s) /\ IsPrecompute(event[s]) =>
             /\ \A k \in DOMAIN transformedBucket :
                    k \in DOMAIN transformedBucket' /\ transformedBucket'[k] = transformedBucket[k]
             /\ PrecomputeKeys(s) \subseteq DOMAIN transformedBucket =>
                    transformedBucket' = transformedBucket ]_vars

\* the second run for a.jpg has written every combination again over the
\* artifacts of the first
C18_Witness ==
    \E s \in Slots :
        /\ Redelivering(s) /\ IsPrecompute(event[s])
        /\ pc[s] = "done"
        /\ originalImagePath[s] = "a.jpg"
        /\ Cardinality(PrecomputeKeys(s)) = 4
        /\ DOMAIN transformedBucket = PrecomputeKeys(s)
        /\ Cardinality({ i \in DOMAIN trace[s] : trace[s][i] = Settled("putObject", TRUE) }) = 4

\* the buffer the codec makes of the original of slot s for its operations
ArtifactOf(s) ==
    LET body == originalBucket[originalImagePath[s]].Body
    IN  Encode(Pipeline(body, Metadata(body), operationsPrefix[s]))

\* the content type the artifact of slot s is stored and served with
ArtifactTypeOf(s) ==
    ResolvedContentType(originalBucket[originalImagePath[s]].ContentType, operationsPrefix[s])

\* the response of the request of slot s when it runs alone and its calls
\* settle as they did in slot s
AloneResponse(s) ==
    IF ~InTrace(s, Settled("getObject", TRUE)) THEN DownloadError
    ELSE IF ~InTrace(s, Settled("toBuffer", TRUE)) THEN TransformError
    ELSE IF ByteLength(ArtifactOf(s)) > MAX_IMAGE_SIZE
         THEN IF InTrace(s, Settled("putObject", TRUE))
              THEN Redirect(originalImagePath[s], operationsPrefix[s])
              ELSE sendError(403, "Requested transformed image is too big")
         ELSE Ok(ArtifactOf(s), ArtifactTypeOf(s))

\* the two slots hold two requests for the same original and the same
\* operation string, both ended
BothDone ==
    /\ concurrency = 2
    /\ \A s \in { 1, 2 } : pc[s] = "done" /\ event[s] # Null /\ DirectRequest(s)
    /\ event[1] = event[2]

\* C19: two concurrent requests for the same original and operation
\* string, however their steps interleave, each get the response a request
\* run alone gets, and the derived store holds, under the one derived key
\* both write to, the bytes and metadata of that artifact
C19_ConcurrentRequestsAgree ==
    BothDone =>
        /\ \A s \in { 1, 2 } : result[s] = Returned(AloneResponse(s))
        /\ \A s \in { 1, 2 } :
              PutKeys(s) \subseteq { originalImagePath[1] \o "/" \o operationsPrefix[1] }
        /\ \A s \in { 1, 2 } :
              InTrace(s, Settled("putObject", TRUE)) =>
                 /\ originalImagePath[1] \o "/" \o operationsPrefix[1] \in DOMAIN transformedBucket
                 /\ transformedBucket[originalImagePath[1] \o "/" \o operationsPrefix[1]]
                        = [ Body        |-> ArtifactOf(1),
                            ContentType |-> ArtifactTypeOf(1),
                            Metadata    |-> [ cacheControl |-> TRANSFORMED_IMAGE_CACHE_TTL ] ]
        /\ invocations = 2 =>
              DOMAIN transformedBucket \subseteq { originalImagePath[1] \o "/" \o operationsPrefix[1] }

\* both requests for the oversize b.png were in flight together: the
\* second one was received before the first one's write, and both wrote
C19_Witness ==
    /\ BothDone
    /\ RequestPath(1) = "/b.png/original"
    /\ \A s \in { 1, 2 } : InTrace(s, Settled("putObject", TRUE)) /\ Responded(s, 302)
    /\ DOMAIN transformedBucket = { "b.png/original" }

\* index in the trace of slot s of the transformImage call that entry i belongs to
CallOf(s, i) ==
    CHOOSE c \in 1..i :
        /\ trace[s][c].op = "transformImage"
        /\ \A d \in 1..i : trace[s][d].op = "transformImage" => d <= c

\* the putObject promise of the call that entry i belongs to settled before i
WriteSettledBefore(s, i) ==
    \E j \in CallOf(s, i)..(i - 1) :
        trace[s][j] \in { Settled("putObject", TRUE), Settled("putObject", FALSE) }

\* a response that carries or points to the transformed image, or refuses
\* it for its size
ImageResponse(value) ==
    \/ value.statusCode \in { 200, 302 }
    \/ value = sendError(403, "Requested transformed image is too big")

\* C20: after every successful transform the write to the derived store is
\* attempted, whatever the size of the image, and transformImage returns
\* no 200, 302 or oversize 403 before that write attempt has settled
C20_WriteAttemptedBeforeResponse ==
    \A s \in Slots : \A i \in DOMAIN trace[s] :
        /\ trace[s][i] = Settled("toBuffer", TRUE) =>
              /\ i < Len(trace[s])
              /\ trace[s][i + 1].op = "putObject"
        /\ trace[s][i].op = "return" /\ ImageResponse(trace[s][i].value) =>
              WriteSettledBefore(s, i)

\* the oversize artifact of b.png was refused with the 403 after its write
\* had been attempted and had failed
C20_Witness ==
    \E s \in Slots :
        /\ pc[s] = "done"
        /\ imageTooBig[s]
        /\ Responded(s, 403)
        /\ \E i \in DOMAIN trace[s] :
              /\ trace[s][i] = Settled("toBuffer", TRUE)
              /\ trace[s][i + 1] = Call("putObject", "b.png/original")
              /\ trace[s][i + 2] = Settled("putObject", FALSE)
              /\ trace[s][Len(trace[s])].op = "return"

\* entries i < j of the trace of slot s belong to the same transformImage call
SameCall(s, i, j) ==
    \A k \in (i + 1)..j : trace[s][k].op # "transformImage"

\* the steps of transformImage: the fetch, the transform (the pipeline up
\* to toBuffer) and the store write
Attempts == << { "getObject" }, { "pipeline", "toBuffer" }, { "putObject" } >>

\* C21: no automatic retry: within one invocation of transformImage the
\* fetch of the original, the transform and the store write are each
\* attempted at most once, whatever their outcome
C21_NoRetry ==
    \A s \in Slots : \A i, j \in DOMAIN trace[s] :
        i < j /\ SameCall(s, i, j) =>
            \A a \in DOMAIN Attempts :
                ~(trace[s][i].op \in Attempts[a] /\ trace[s][j].op \in Attempts[a])

\* a precompute run whose first transformImage call ended on a rejected
\* write went on with the next combination: one write attempt in that call
C21_Witness ==
    \E s \in Slots :
        /\ IsPrecompute(event[s])
        /\ pc[s] = "done"
        /\ \E i \in DOMAIN trace[s] :
              /\ trace[s][i] = Settled("putObject", FALSE)
              /\ Cardinality({ j \in DOMAIN trace[s] :
                                 trace[s][j].op = "putObject" /\ (j < i => SameCall(s, j, i))
                                                              /\ (i < j => SameCall(s, i, j)) }) = 1
        /\ InTrace(s, Settled("getObject", FALSE))
        /\ InTrace(s, Settled("toBuffer", FALSE))

\* the query string of a URL as the distribution hands it to the edge
\* function: one parameter for every '&'-separated part
ParseQuery(query) ==
    LET parts == Split(query, "&")
    IN  [ i \in 1..Len(parts) |->
            QueryEntry(Split(parts[i], "=")[1],
                       IF Len(Split(parts[i], "=")) >= 2 THEN Split(parts[i], "=")[2] ELSE "") ]

\* the Location of the 302 the backend answers the rewritten path with
LocationOf(path) == Redirect(PathOriginal(path), PathOperations(path)).headers.Location

\* the viewer following that Location: same Accept header, same cookies
Followed(request, location) ==
    [ request EXCEPT !.uri = Split(location, "?")[1],
                     !.querystring = ParseQuery(Split(location, "?")[2]) ]

\* C22: following an oversize 302 re-normalizes consistently: the Location
\* of the redirect for a path the edge function produced, passed through
\* the edge function again, is rewritten to that same path
C22_RedirectRenormalizes ==
    EdgeRewrote =>
        urlRewrite(Followed(viewerRequest, LocationOf(edgeResult.value.uri))).value.uri
            = edgeResult.value.uri

\* the names of the fields of an operation segment, in their order
FieldNames(segment) ==
    [ i \in 1..Len(Split(segment, ",")) |-> Split(Split(segment, ",")[i], "=")[1] ]

\* the place of a field in the canonical order, 0 for an unknown name
FieldRank(name) ==
    CASE name = "f" -> 1 [] name = "q" -> 2 [] name = "w" -> 3
      [] name = "h" -> 4 [] name = "mw" -> 5 [] name = "mh" -> 6 [] OTHER -> 0

\* C23: the operation segment the edge function emits lists its fields in
\* the order f, q, w, h, mw, mh, each at most once, whatever the order of
\* the incoming query parameters
C23_FixedFieldOrder ==
    EdgeRewrote /\ LastSegment(edgeResult.value.uri) # "original" =>
        LET names == FieldNames(LastSegment(edgeResult.value.uri))
        IN  /\ \A i \in DOMAIN names : FieldRank(names[i]) > 0
            /\ \A i, j \in DOMAIN names : i < j => FieldRank(names[i]) < FieldRank(names[j])

C23_Witness ==
    /\ EdgeRewrote
    /\ Len(viewerRequest.querystring) = 6
    /\ viewerRequest.querystring[1].key = "mh"
    /\ viewerRequest.querystring[6].key = "f"
    /\ LastSegment(edgeResult.value.uri) = "f=avif,q=50,w=400,h=300,mw=10,mh=20"

\* the operation segment without its mw and mh fields
WithoutMaxBounds(segment) ==
    Join(SelectSeq(Split(segment, ","),
                   LAMBDA field : Split(field, "=")[1] \notin { "mw", "mh" }), ",")

\* the intrinsic size of sample/1.jpg
SampleMetadata == Metadata(OriginalObjects["sample/1.jpg"].Body)

\* C24: when both exact (w/h) and max-bound (mw/mh) dimensions are
\* supplied, exact mode takes precedence: the segment the edge function
\* emits has no mw/mh field, and the resize target transformImage computes
\* for it is the one of its w/h fields alone
C24_ExactModePrecedence ==
    EdgeRewrote =>
        LET segment == LastSegment(edgeResult.value.uri)
            names   == { FieldNames(segment)[i] : i \in DOMAIN FieldNames(segment) }
        IN  names \cap { "w", "h" } # {} =>
                /\ names \cap { "mw", "mh" } = {}
                /\ ResizingOptions(ParseOperations(segment), SampleMetadata)
                       = ResizingOptions(ParseOperations(WithoutMaxBounds(segment)), SampleMetadata)

\* C25: for an operation string with a quality field q=N and a target
\* format, the encoder is invoked with quality N when the format is lossy
\* (jpeg, webp, avif) and without a quality when it is lossless (png, gif)
C25_QualityForLossyOnly ==
    \A s \in Slots :
        transformedImage[s] # Null =>
            LET operationsJSON == ParseOperations(operationsPrefix[s])
                quality        == transformedImage[s].of.quality
            IN  Truthy(Get(operationsJSON, "q")) /\ Truthy(Get(operationsJSON, "f")) =>
                    /\ Get(operationsJSON, "f").v \in { "jpeg", "webp", "avif" } =>
                           quality = ParseInt(Get(operationsJSON, "q"))
                    /\ Get(operationsJSON, "f").v \in { "png", "gif" } => quality = NaN

\* the value of field i of an operation segment
FieldValue(segment, i) == Split(Split(segment, ",")[i], "=")[2]

\* a non-empty string of decimal digits
IsDigits(s) == s # "" /\ DigitPrefixLen(s) = Len(s)

\* C26: every operation segment the edge function emits conforms to the
\* canonical grammar: it is 'original' or a comma-separated list of fields
\* name=value where an f value is one of jpeg, png, webp, avif, gif (never
\* 'auto' or another token) and every other value is a string of digits
C26_CanonicalGrammar ==
    EdgeRewrote /\ LastSegment(edgeResult.value.uri) # "original" =>
        LET segment == LastSegment(edgeResult.value.uri)
        IN  \A i \in DOMAIN FieldNames(segment) :
                /\ Len(Split(Split(segment, ",")[i], "=")) = 2
                /\ FieldRank(FieldNames(segment)[i]) > 0
                /\ IF FieldNames(segment)[i] = "f"
                   THEN FieldValue(segment, i) \in { "jpeg", "png", "webp", "avif", "gif" }
                   ELSE IsDigits(FieldValue(segment, i))

\* the query value parses to a positive integer
ParsesPositive(value) == ~ParseInt(Str(value)).nan /\ ParseInt(Str(value)).v > 0

\* the values of the fields called name in an operation segment
ValuesOf(segment, name) ==
    { FieldValue(segment, i) : i \in { j \in DOMAIN FieldNames(segment) : FieldNames(segment)[j] = name } }

\* C27: each of w, h, mw, mh and q is emitted exactly when a query value
\* for it parses to a positive integer; a non-numeric, missing, zero or
\* negative value drops the field without an error; every emitted
\* dimension is a number >= 1 and every emitted q is in 1..100
C27_PositiveIntegersAndClampedQuality ==
    EdgeRewrote =>
        LET segment == LastSegment(edgeResult.value.uri)
            query   == viewerRequest.querystring
        IN  \A name \in { "w", "h", "mw", "mh", "q" } :
                /\ ValuesOf(segment, name) # {} <=>
                       \E i \in DOMAIN query :
                           ToLowerCase(query[i].key) = name /\ ParsesPositive(query[i].value)
                /\ \A value \in ValuesOf(segment, name) :
                       /\ IsDigits(value)
                       /\ DigitsValue(value) >= 1
                       /\ name = "q" => DigitsValue(value) <= 100
                       /\ \E i \in DOMAIN query :
                              /\ ToLowerCase(query[i].key) = name
                              /\ ParsesPositive(query[i].value)
                              /\ DigitsValue(value) =
                                     IF name = "q" THEN Min(ParseInt(Str(query[i].value)).v, 100)
                                     ELSE ParseInt(Str(query[i].value)).v

\* q=150 was emitted as q=100
C27_Witness ==
    /\ EdgeRewrote
    /\ viewerRequest.querystring = << QueryEntry("f", "AUTO"), QueryEntry("q", "150") >>
    /\ ValuesOf(LastSegment(edgeResult.value.uri), "q") = { "100" }

\* the request has exactly one format parameter and its value is 'auto' in
\* some letter case
AsksAuto ==
    LET query == viewerRequest.querystring
        fs    == { i \in DOMAIN query : ToLowerCase(query[i].key) = "f" }
    IN  /\ Cardinality(fs) = 1
        /\ \A i \in fs : ToLowerCase(query[i].value) = "auto"

\* the Accept header of the request names the format
Advertises(format) ==
    viewerRequest.headers.accept.def /\ Includes(viewerRequest.headers.accept.v, format)

\* C28: for f=auto in any letter case the emitted format is avif when the
\* Accept header advertises avif, else webp when it advertises webp, else
\* jpeg (also without an Accept header); 'auto' is never emitted
C28_AutoResolvedFromAccept ==
    /\ EdgeRewrote => "auto" \notin ValuesOf(LastSegment(edgeResult.value.uri), "f")
    /\ EdgeRewrote /\ AsksAuto =>
           ValuesOf(LastSegment(edgeResult.value.uri), "f") =
               { IF Advertises("avif") THEN "avif"
                 ELSE IF Advertises("webp") THEN "webp"
                 ELSE "jpeg" }

\* f=AUTO with an Accept header naming avif and webp was emitted as f=avif
C28_Witness ==
    /\ EdgeRewrote /\ AsksAuto
    /\ \E i \in DOMAIN viewerRequest.querystring : viewerRequest.querystring[i].value = "AUTO"
    /\ Advertises("avif") /\ Advertises("webp")
    /\ ValuesOf(LastSegment(edgeResult.value.uri), "f") = { "avif" }

\* C29: whenever the original carries embedded orientation metadata, the
\* image transformImage encodes has had the orientation correction applied,
\* whatever the operation string: 'original', strings with the 'org'
\* sentinel and strings without a resize field included
C29_OrientationAlwaysCorrected ==
    \A s \in Slots :
        transformedImage[s] # Null /\ imageMetadata[s].orientation # 0 =>
            transformedImage[s].of.rotate

\* an authorized GET for the 'original' operation whose fetch and transform
\* succeeded has ended
OriginalRequested(s) == TransformedDirect(s) /\ operationsPrefix[s] = "original"

\* the content type stored with the original of slot s
OriginalTypeOf(s) == originalBucket[originalImagePath[s]].ContentType

\* C30 as stated: every request for 'original' sets no resize target,
\* requests no format, is answered 200 with the content type of the
\* original and is written under '<original-key>/original'
C30_OriginalPassthrough ==
    \A s \in Slots :
        OriginalRequested(s) =>
            /\ transformedImage[s].of.resize.width = Unset
            /\ transformedImage[s].of.resize.height = Unset
            /\ transformedImage[s].of.format = Undefined
            /\ Responded(s, 200)
            /\ result[s].value.headers.ContentType = OriginalTypeOf(s)
            /\ PutKeys(s) = { originalImagePath[s] \o "/original" }

\* C30: a request for 'original' whose fetch and transform succeed sets no
\* resize target and requests no format; the artifact keeps the content
\* type of the original and its write goes to the key made of the original
\* key, with '/static-assets/' replaced by '/transformed/static-assets/',
\* and '/original'; the response is 200 with the content type of the
\* original when the output is within MAX_IMAGE_SIZE, and the 302 or 403
\* of an oversize image otherwise
C30_OriginalPassthroughWithinCeiling ==
    \A s \in Slots :
        OriginalRequested(s) =>
            /\ transformedImage[s].of.resize.width = Unset
            /\ transformedImage[s].of.resize.height = Unset
            /\ transformedImage[s].of.format = Undefined
            /\ contentType[s] = OriginalTypeOf(s)
            /\ PutKeys(s) =
                   { ReplaceFirst(originalImagePath[s], "/static-assets/", "/transformed/static-assets/")
                         \o "/original" }
            /\ InTrace(s, Settled("putObject", TRUE)) =>
                   \E k \in PutKeys(s) :
                       /\ k \in DOMAIN transformedBucket
                       /\ transformedBucket[k].ContentType = OriginalTypeOf(s)
                       /\ transformedBucket[k].Body = transformedImage[s]
            /\ IF ByteLength(transformedImage[s]) <= MAX_IMAGE_SIZE
               THEN /\ Responded(s, 200)
                    /\ result[s].value.headers.ContentType = OriginalTypeOf(s)
               ELSE Responded(s, 302) \/ Responded(s, 403)

\* /a.jpg/original was answered 200 image/jpeg and stored under
\* 'a.jpg/original'
C30_Witness ==
    \E s \in Slots :
        /\ OriginalRequested(s)
        /\ originalImagePath[s] = "a.jpg"
        /\ Responded(s, 200)
        /\ result[s].value.headers.ContentType = "image/jpeg"
        /\ "a.jpg/original" \in DOMAIN transformedBucket
        /\ transformedBucket["a.jpg/original"].ContentType = "image/jpeg"

\* the direct request of slot s was written to the derived store and
\* answered 200
PersistedAndServed(s) ==
    /\ TransformedDirect(s)
    /\ InTrace(s, Settled("putObject", TRUE))
    /\ Responded(s, 200)

\* the object the request of slot s wrote to the derived store
StoredBy(s) == transformedBucket[TransformedKey(originalImagePath[s], operationsPrefix[s])]

\* operationsJSON['f'] of the request of slot s
RequestedFormat(s) == Get(ParseOperations(operationsPrefix[s]), "f")

\* C31: for every request that is persisted and answered 200, the content
\* type and the cache lifetime written with the stored artifact equal the
\* Content-Type and Cache-Control headers of the response; the content
\* type is 'image/<format>' for a requested format among jpeg, gif, webp,
\* png, avif and the content type of the original when no format is requested
C31_StoredMetadataEqualsHeaders ==
    \A s \in Slots :
        PersistedAndServed(s) =>
            /\ PutKeys(s) \subseteq DOMAIN transformedBucket
            /\ \A k \in PutKeys(s) :
                   /\ transformedBucket[k].ContentType = result[s].value.headers.ContentType
                   /\ transformedBucket[k].Metadata.cacheControl = result[s].value.headers.CacheControl
                   /\ transformedBucket[k].Metadata.cacheControl = TRANSFORMED_IMAGE_CACHE_TTL
            /\ PutKeys(s) # {}
            /\ RequestedFormat(s).def /\ RequestedFormat(s).v \in { "jpeg", "gif", "webp", "png", "avif" }
                   => result[s].value.headers.ContentType = "image/" \o RequestedFormat(s).v
            /\ ~RequestedFormat(s).def
                   => result[s].value.headers.ContentType = OriginalTypeOf(s)

\* /sample/1.jpg/f=webp,w=400 was stored and served as image/webp
C31_Witness ==
    \E s \in Slots :
        /\ PersistedAndServed(s)
        /\ originalImagePath[s] = "sample/1.jpg"
        /\ operationsPrefix[s] = "f=webp,w=400"
        /\ StoredBy(s).ContentType = "image/webp"
        /\ result[s].value.headers.ContentType = "image/webp"
        /\ StoredBy(s).Metadata.cacheControl = result[s].value.headers.CacheControl

\* the positions of the trace of slot s holding an entry of this kind
EntriesOf(s, op) == { k \in DOMAIN trace[s] : trace[s][k].op = op }

\* C32: for one ingestion event the handler calls transformImage exactly
\* once for every pair of a configured size and a configured format, with
\* the operation string '<size>,f=<format>', |sizes| x |formats| calls in
\* all, and it ends only after every one of these calls has returned
C32_OncePerCombination ==
    \A s \in Slots :
        (pc[s] = "done" /\ "Records" \in DOMAIN event[s] /\ DrivesPrecompute(s)) =>
            /\ \A i \in DOMAIN autoTransformImageSizes, j \in DOMAIN autoTransformImageFormats :
                   Cardinality({ k \in EntriesOf(s, "transformImage") :
                       trace[s][k].arg = autoTransformImageSizes[i] \o ",f=" \o autoTransformImageFormats[j] }) = 1
            /\ Cardinality(EntriesOf(s, "transformImage"))
                   = Len(autoTransformImageSizes) * Len(autoTransformImageFormats)
            /\ Cardinality(EntriesOf(s, "return"))
                   = Len(autoTransformImageSizes) * Len(autoTransformImageFormats)
            /\ result[s].kind = "returned"

\* the number is one of the entries of an allow-list 'n|n|...'
Allowed(list, number) ==
    \E i \in DOMAIN Split(list, "|") :
        ~number.nan /\ ~ParseInt(Str(Split(list, "|")[i])).nan
                    /\ ParseInt(Str(Split(list, "|")[i])).v = number.v

\* the width and the height the request of slot s asks for are both allowed
SizeAllowed(s) ==
    /\ Allowed(ALLOW_TRANSFORM_IMAGE_WIDTHS, ParseInt(Get(ParseOperations(operationsPrefix[s]), "w")))
    /\ Allowed(ALLOW_TRANSFORM_IMAGE_HEIGHTS, ParseInt(Get(ParseOperations(operationsPrefix[s]), "h")))

\* C33: with both allow-lists configured, a request whose width or height
\* is not in the lists is answered with the 404 'Do not support this output
\* size.' and nothing is persisted, and a request whose width and height
\* are both in the lists is transformed as without the lists
C33_AllowListEnforced ==
    \A s \in Slots :
        ( /\ pc[s] = "done" /\ DirectRequest(s) /\ CarriesSecret(s) /\ IsGet(s)
          /\ InTrace(s, Settled("metadata", TRUE))
          /\ ALLOW_TRANSFORM_IMAGE_WIDTHS # "" /\ ALLOW_TRANSFORM_IMAGE_HEIGHTS # "" ) =>
            IF SizeAllowed(s)
            THEN /\ Called(s, { "toBuffer" })
                 /\ ~Responded(s, 404)
                 /\ InTrace(s, Settled("toBuffer", TRUE)) => result[s] = Returned(AloneResponse(s))
            ELSE /\ result[s] = Returned(sendError(404, "Do not support this output size."))
                 /\ ~Called(s, { "putObject" })

\* C34: the original store is read-only: no step of any invocation, for a
\* direct request or an ingestion event, creates, overwrites or deletes an
\* object of the original-image store; the only store mutation is the put
\* of transformImage, which sets one key of the transformed-image store,
\* the derived key of the invocation making it
C34_OriginalStoreReadOnly ==
    [][ /\ originalBucket' = originalBucket
        /\ \A k \in DOMAIN transformedBucket : k \in DOMAIN transformedBucket'
        /\ transformedBucket' # transformedBucket =>
               \E s \in Slots :
                   /\ pc[s] = "putObject"
                   /\ Len(trace'[s]) > Len(trace[s])
                   /\ trace'[s][Len(trace[s]) + 1] = Settled("putObject", TRUE)
                   /\ \A k \in DOMAIN transformedBucket' :
                          k # TransformedKey(originalImagePath[s], operationsPrefix[s]) =>
                              k \in DOMAIN transformedBucket /\ transformedBucket'[k] = transformedBucket[k]
      ]_vars

\* the four variants of an ingested a.jpg have been written to the
\* transformed-image store and the original store holds what it held
C34_Witness ==
    /\ originalBucket = OriginalObjects
    /\ { "a.jpg/original", "a.jpg/f=webp", "a.jpg/w=1", "a.jpg/w=1,f=webp" } \subseteq DOMAIN transformedBucket
    /\ \E s \in Slots : pc[s] = "done" /\ IsPrecompute(event[s])

\* a path without its leading '/'
WithoutLeadingSlash(path) == SubSeq(path, 2, Len(path))

\* C35: edge-to-store key consistency: for every request the edge function
\* rewrites to the path P, with or without a site, the key transformImage
\* persists the artifact under, when it is handed P, is P without its
\* leading '/'
C35_EdgeToStoreKey ==
    EdgeRewrote =>
        DerivedKeyOf(edgeResult.value.uri) = WithoutLeadingSlash(edgeResult.value.uri)

\* the site-prefixed original path of a viewer request: the site of the
\* cookie, when there is one, in front of the uri
SitePrefixed(request) ==
    IF Truthy(request.cookies.crafterSite)
    THEN "/" \o request.cookies.crafterSite.v \o request.uri
    ELSE request.uri

\* C36: original-key recovery: for every uri with a supported extension and
\* every site cookie value, the original key the backend fetches for the
\* path the edge function rewrote the request to is the site-prefixed
\* original path without its leading '/'
C36_OriginalKeyRecovered ==
    EdgeRewrote =>
        PathOriginal(edgeResult.value.uri) = WithoutLeadingSlash(SitePrefixed(viewerRequest))

\* the operation segment the edge function emits for a request asking for
\* the operations of a precompute combination
OnTheFlyOperations(operations, accept) == OperationsSegment(AsQueryString(operations), accept)

\* C37: precompute and on-the-fly agree on keys: the key the Precompute
\* Driver persists the variant of a (size, format) combination under is the
\* key the on-the-fly path writes for the same original and the same
\* operations once the edge function has put them in its order
C37_PrecomputeKeyIsOnTheFlyKey ==
    \A s \in Slots :
        event[s] # Null /\ IsPrecompute(event[s]) /\ pc[s] = "putObject" =>
            \A accept \in AcceptHeaders :
                TransformedKey(originalImagePath[s], operationsPrefix[s])
                    = TransformedKey(originalImagePath[s], OnTheFlyOperations(operationsPrefix[s], accept))

\* C38: the edge function returns a request for every viewer request and
\* never throws, without a crafterSite cookie and with missing or malformed
\* query values too; for a uri without a supported extension the uri and
\* the query string are returned unchanged but for the site in front of
\* the uri
C38_EdgeNeverThrows ==
    viewerRequest # Null /\ edgeResult.kind # "pending" =>
        /\ edgeResult.kind = "returned"
        /\ ~isTransformSupported(viewerRequest.uri) =>
               /\ edgeResult.value.uri = SitePrefixed(viewerRequest)
               /\ edgeResult.value.querystring = viewerRequest.querystring

====
